---- MODULE Spec2Model ----
(***************************************************************************)
(* Verification model of the pc-agent catalog core:                        *)
(*   - the ingestion tasks of app/tasks/scraper_tasks.py (upsert by        *)
(*     (name, price), per-listing commit / rollback, two periodic tasks), *)
(*   - the extractors, name parser and benchmark calculator they call,     *)
(*   - the check_compatibility tool of app/agent/tools.py.                 *)
(*                                                                         *)
(* Text is modelled as a sequence of one-character strings so that the     *)
(* substring tests and regular-expression probes of the code are computed  *)
(* as the code computes them.  An optional value (Python None / missing    *)
(* dict key) is the empty tuple, a present value v is <<v>>.  Scores are   *)
(* fixed-point numbers in 1/10000 points.                                  *)
(***************************************************************************)
EXTENDS Integers, Sequences, FiniteSets, TLC

-----------------------------------------------------------------------------
(* Optional values *)

None == << >>

Some(v) == <<v>>

IsNone(o) == o = << >>

-----------------------------------------------------------------------------
(* Strings as character sequences *)

UpperChars ==
  <<"A","B","C","D","E","F","G","H","I","J","K","L","M",
    "N","O","P","Q","R","S","T","U","V","W","X","Y","Z">>

LowerChars ==
  <<"a","b","c","d","e","f","g","h","i","j","k","l","m",
    "n","o","p","q","r","s","t","u","v","w","x","y","z">>

DigitChars == <<"0","1","2","3","4","5","6","7","8","9">>

IsUpper(c) == \E i \in 1..26 : UpperChars[i] = c

IsLower(c) == \E i \in 1..26 : LowerChars[i] = c

IsDigit(c) == \E i \in 1..10 : DigitChars[i] = c

IsSpace(c) == c = " "

DigitVal(c) == (CHOOSE i \in 1..10 : DigitChars[i] = c) - 1

LowerChar(c) ==
  IF IsUpper(c) THEN LowerChars[CHOOSE i \in 1..26 : UpperChars[i] = c] ELSE c

UpperChar(c) ==
  IF IsLower(c) THEN UpperChars[CHOOSE i \in 1..26 : LowerChars[i] = c] ELSE c

\* str.lower()
Lower(s) == [i \in 1..Len(s) |-> LowerChar(s[i])]

\* str.upper()
Upper(s) == [i \in 1..Len(s) |-> UpperChar(s[i])]

\* s[i:j] with 1-based inclusive bounds
Slice(s, i, j) == IF j < i THEN << >> ELSE SubSeq(s, i, j)

\* the literal k occurs in s starting at position i
MatchAt(k, s, i) ==
  /\ i >= 1
  /\ i + Len(k) - 1 <= Len(s)
  /\ \A j \in 1..Len(k) : s[i + j - 1] = k[j]

\* Python "k in s" on strings
Contains(s, k) == \E i \in 1..(Len(s) - Len(k) + 1) : MatchAt(k, s, i)

\* end of the maximal run of characters satisfying the class test from
\* position i (i - 1 when the run is empty)
RECURSIVE DigitRunEnd(_, _)
DigitRunEnd(s, i) ==
  IF i <= Len(s) /\ IsDigit(s[i]) THEN DigitRunEnd(s, i + 1) ELSE i - 1

RECURSIVE SpaceRunEnd(_, _)
SpaceRunEnd(s, i) ==
  IF i <= Len(s) /\ IsSpace(s[i]) THEN SpaceRunEnd(s, i + 1) ELSE i - 1

\* int() of a digit string
RECURSIVE ParseInt(_)
ParseInt(s) ==
  IF s = << >> THEN 0
  ELSE 10 * ParseInt(SubSeq(s, 1, Len(s) - 1)) + DigitVal(s[Len(s)])

\* a regular-expression tail  \s*p1\s*p2...  of literals matches at pos
RECURSIVE PartsMatch(_, _, _)
PartsMatch(text, parts, pos) ==
  IF parts = << >> THEN TRUE
  ELSE LET p == SpaceRunEnd(text, pos) + 1
       IN  /\ MatchAt(parts[1], text, p)
           /\ PartsMatch(text, Tail(parts), p + Len(parts[1]))

\* re.search(r'(\d+)\s*(?:u1|u2|...)', text), each unit a sequence of literals
\* separated by \s*: the leftmost digit run followed by optional whitespace
\* and one of the units; the result is the optional int() of group 1.
NumProbeAt(text, units, i) ==
  /\ IsDigit(text[i])
  /\ \E u \in units : PartsMatch(text, u, DigitRunEnd(text, i) + 1)

MinOf(S) == CHOOSE h \in S : \A g \in S : h <= g

NumProbe(text, units) ==
  LET hits == { i \in 1..Len(text) : NumProbeAt(text, units, i) }
  IN  IF hits = {} THEN None
      ELSE Some(ParseInt(Slice(text, MinOf(hits), DigitRunEnd(text, MinOf(hits)))))

\* the fractional digits of a float literal as thousandths
Millis(frac) ==
  LET d(k) == IF k <= Len(frac) THEN DigitVal(frac[k]) ELSE 0
  IN  100 * d(1) + 10 * d(2) + d(3)

\* re.search(r'(\d+\.?\d*)\s*unit', text) and float(group 1), in thousandths
FloatEnd(text, i) ==
  LET e == DigitRunEnd(text, i)
  IN  IF e + 1 <= Len(text) /\ text[e + 1] = "." THEN DigitRunEnd(text, e + 2) ELSE e

FloatProbeAt(text, unit, i) ==
  /\ IsDigit(text[i])
  /\ PartsMatch(text, <<unit>>, FloatEnd(text, i) + 1)

FloatProbe(text, unit) ==
  LET hits == { i \in 1..Len(text) : FloatProbeAt(text, unit, i) }
  IN  IF hits = {} THEN None
      ELSE LET i == MinOf(hits)
               e == DigitRunEnd(text, i)
           IN  Some(1000 * ParseInt(Slice(text, i, e))
                    + Millis(Slice(text, e + 2, FloatEnd(text, i))))

\* an ordered probe table <<key, value>>: the value of the first key that
\* occurs in the text (for key, value in table.items(): if key in text: break)
FirstProbe(text, table) ==
  LET hits == { i \in 1..Len(table) : Contains(text, table[i][1]) }
  IN  IF hits = {} THEN None ELSE Some(table[MinOf(hits)][2])

-----------------------------------------------------------------------------
(* Dictionaries: functions from key to value *)

EmptyDict == [k \in {} |-> 0]

\* d.get(k)
Get(d, k) == IF k \in DOMAIN d THEN Some(d[k]) ELSE None

\* d.get(k, default)
GetOr(d, k, default) == IF k \in DOMAIN d THEN d[k] ELSE default

\* the one-entry dictionary {k: v} when the probe matched, else {}
Entry(k, opt) == IF IsNone(opt) THEN EmptyDict ELSE k :> opt[1]

\* f"{name} {description}".lower()
ListingText(name, description) == Lower(name \o <<" ">> \o description)

-----------------------------------------------------------------------------
(* app/utils/spec_extractor.py *)

CpuSockets ==
  << <<<<"l","g","a","1","7","0","0">>, <<"L","G","A","1","7","0","0">>>>, <<<<"l","g","a","1","2","0","0">>, <<"L","G","A","1","2","0","0">>>>,
     <<<<"l","g","a","1","1","5","1">>, <<"L","G","A","1","1","5","1">>>>, <<<<"a","m","5">>, <<"A","M","5">>>>, <<<<"a","m","4">>, <<"A","M","4">>>>,
     <<<<"a","m","3">>, <<"A","M","3","+">>>> >>

MoboSockets ==
  << <<<<"l","g","a","1","7","0","0">>, <<"L","G","A","1","7","0","0">>>>, <<<<"l","g","a","1","2","0","0">>, <<"L","G","A","1","2","0","0">>>>,
     <<<<"l","g","a","1","1","5","1">>, <<"L","G","A","1","1","5","1">>>>, <<<<"a","m","5">>, <<"A","M","5">>>>, <<<<"a","m","4">>, <<"A","M","4">>>> >>

Chipsets ==
  << <<"b","5","5","0">>, <<"x","5","7","0">>, <<"b","6","5","0">>, <<"x","6","7","0">>, <<"z","6","9","0">>, <<"z","7","9","0">>, <<"b","6","6","0">>, <<"h","6","1","0">> >>

MoboFormFactors ==
  << <<<<"a","t","x">>, <<"A","T","X">>>>, <<<<"m","a","t","x">>, <<"m","A","T","X">>>>, <<<<"m","i","c","r","o"," ","a","t","x">>, <<"m","A","T","X">>>>,
     <<<<"i","t","x">>, <<"I","T","X">>>>, <<<<"m","i","n","i"," ","i","t","x">>, <<"I","T","X">>>> >>

\* A form_factor value is a string for a motherboard and a list of strings
\* for a case; the tag keeps the two apart.
StrVal(s) == <<"str", s>>

ListVal(l) == <<"list", l>>

IsListVal(v) == v[1] = "list"

\* the if/elif chain on "ddr5" / "ddr4" / "ddr3"
RamTypeProbe(text) ==
  IF Contains(text, <<"d","d","r","5">>) THEN Some(<<"D","D","R","5">>)
  ELSE IF Contains(text, <<"d","d","r","4">>) THEN Some(<<"D","D","R","4">>)
  ELSE IF Contains(text, <<"d","d","r","3">>) THEN Some(<<"D","D","R","3">>)
  ELSE None

\* the TDP / wattage probe r'(\d+)\s*w(?:atts?)?'
WattProbe(text) == NumProbe(text, { <<<<"w">>>> })

extract_cpu_specs(name, description) ==
  LET text == ListingText(name, description)
  IN  Entry("socket_type", FirstProbe(text, CpuSockets))
      @@ Entry("cores", NumProbe(text, { <<<<"c","o","r","e">>>> }))
      @@ Entry("threads", NumProbe(text, { <<<<"t","h","r","e","a","d">>>> }))
      @@ Entry("base_clock_ghz", FloatProbe(text, <<"g","h","z">>))
      @@ Entry("tdp_watts", WattProbe(text))

\* the three VRAM patterns, tried in order
VramProbe(text) ==
  LET a == NumProbe(text, { <<<<"g","b">>, <<"v","r","a","m">>>> })
      b == NumProbe(text, { <<<<"g","b">>, <<"g","d","d","r">>>> })
      c == NumProbe(text, { <<<<"g","o">>>> })
  IN  IF ~IsNone(a) THEN a ELSE IF ~IsNone(b) THEN b ELSE c

MemoryTypeProbe(text) ==
  IF Contains(text, <<"g","d","d","r","6">>) \/ Contains(text, <<"g","d","6">>) THEN Some(<<"G","D","D","R","6">>)
  ELSE IF Contains(text, <<"g","d","d","r","6","x">>) THEN Some(<<"G","D","D","R","6","X">>)
  ELSE IF Contains(text, <<"g","d","d","r","5">>) THEN Some(<<"G","D","D","R","5">>)
  ELSE None

extract_gpu_specs(name, description) ==
  LET text == ListingText(name, description)
  IN  Entry("vram_gb", VramProbe(text))
      @@ Entry("memory_type", MemoryTypeProbe(text))
      @@ Entry("tdp_watts", WattProbe(text))

ChipsetProbe(text) ==
  LET hits == { i \in 1..Len(Chipsets) : Contains(text, Chipsets[i]) }
  IN  IF hits = {} THEN None ELSE Some(Upper(Chipsets[MinOf(hits)]))

MoboFormFactorProbe(text) ==
  LET f == FirstProbe(text, MoboFormFactors)
  IN  IF IsNone(f) THEN None ELSE Some(StrVal(f[1]))

extract_motherboard_specs(name, description) ==
  LET text == ListingText(name, description)
  IN  Entry("socket_type", FirstProbe(text, MoboSockets))
      @@ Entry("chipset", ChipsetProbe(text))
      @@ Entry("ram_type", RamTypeProbe(text))
      @@ Entry("ram_speed", NumProbe(text, { <<<<"m","h","z">>>> }))
      @@ Entry("form_factor", MoboFormFactorProbe(text))

\* re.search(r'ddr[45][\-\s]*(\d+)', text)
RECURSIVE SepRunEnd(_, _)
SepRunEnd(s, i) ==
  IF i <= Len(s) /\ (s[i] = "-" \/ IsSpace(s[i])) THEN SepRunEnd(s, i + 1) ELSE i - 1

DdrSpeedAt(text, i) ==
  /\ MatchAt(<<"d","d","r">>, text, i)
  /\ i + 3 <= Len(text)
  /\ text[i + 3] \in {"4", "5"}
  /\ SepRunEnd(text, i + 4) + 1 <= Len(text)
  /\ IsDigit(text[SepRunEnd(text, i + 4) + 1])

DdrSpeedProbe(text) ==
  LET hits == { i \in 1..Len(text) : DdrSpeedAt(text, i) }
  IN  IF hits = {} THEN None
      ELSE LET d == SepRunEnd(text, MinOf(hits) + 4) + 1
           IN  Some(ParseInt(Slice(text, d, DigitRunEnd(text, d))))

RamSpeedProbe(text) ==
  LET m == NumProbe(text, { <<<<"m","h","z">>>> })
  IN  IF ~IsNone(m) THEN m ELSE DdrSpeedProbe(text)

extract_ram_specs(name, description) ==
  LET text == ListingText(name, description)
  IN  Entry("capacity_gb", NumProbe(text, { <<<<"g","b">>>> }))
      @@ Entry("ram_type", RamTypeProbe(text))
      @@ Entry("ram_speed", RamSpeedProbe(text))

StorageCapacityProbe(text) ==
  LET c == NumProbe(text, { <<<<"g","b">>>>, <<<<"t","b">>>> })
  IN  IF IsNone(c) THEN None
      ELSE IF Contains(text, <<"t","b">>) THEN Some(c[1] * 1000) ELSE c

StorageTypeProbe(text) ==
  IF Contains(text, <<"n","v","m","e">>) \/ Contains(text, <<"m",".","2">>) \/ Contains(text, <<"p","c","i","e">>)
    THEN Some(<<"N","V","M","e"," ","S","S","D">>)
  ELSE IF Contains(text, <<"s","s","d">>) THEN Some(<<"S","S","D">>)
  ELSE IF Contains(text, <<"h","d","d">>) \/ Contains(text, <<"h","a","r","d"," ","d","r","i","v","e">>) THEN Some(<<"H","D","D">>)
  ELSE None

StorageInterfaceProbe(text) ==
  IF Contains(text, <<"s","a","t","a">>) THEN Some(<<"S","A","T","A">>)
  ELSE IF Contains(text, <<"n","v","m","e">>) \/ Contains(text, <<"m",".","2">>) THEN Some(<<"N","V","M","e">>)
  ELSE None

extract_storage_specs(name, description) ==
  LET text == ListingText(name, description)
  IN  Entry("capacity_gb", StorageCapacityProbe(text))
      @@ Entry("type", StorageTypeProbe(text))
      @@ Entry("interface", StorageInterfaceProbe(text))

EfficiencyProbe(text) ==
  IF Contains(text, <<"8","0","+"," ","t","i","t","a","n","i","u","m">>) THEN Some(<<"8","0","+"," ","T","i","t","a","n","i","u","m">>)
  ELSE IF Contains(text, <<"8","0","+"," ","p","l","a","t","i","n","u","m">>) THEN Some(<<"8","0","+"," ","P","l","a","t","i","n","u","m">>)
  ELSE IF Contains(text, <<"8","0","+"," ","g","o","l","d">>) THEN Some(<<"8","0","+"," ","G","o","l","d">>)
  ELSE IF Contains(text, <<"8","0","+"," ","b","r","o","n","z","e">>) THEN Some(<<"8","0","+"," ","B","r","o","n","z","e">>)
  ELSE IF Contains(text, <<"8","0","+"," ","s","i","l","v","e","r">>) THEN Some(<<"8","0","+"," ","S","i","l","v","e","r">>)
  ELSE IF Contains(text, <<"8","0","+">>) THEN Some(<<"8","0","+">>)
  ELSE None

extract_psu_specs(name, description) ==
  LET text == ListingText(name, description)
  IN  Entry("wattage", WattProbe(text))
      @@ Entry("efficiency", EfficiencyProbe(text))

\* the list of supported form factors, appended in the order ATX, mATX, ITX
CaseFormFactors(text) ==
  (IF Contains(text, <<"a","t","x">>) THEN << <<"A","T","X">> >> ELSE << >>)
  \o (IF Contains(text, <<"m","a","t","x">>) \/ Contains(text, <<"m","i","c","r","o"," ","a","t","x">>)
        THEN << <<"m","A","T","X">> >> ELSE << >>)
  \o (IF Contains(text, <<"i","t","x">>) \/ Contains(text, <<"m","i","n","i"," ","i","t","x">>)
        THEN << <<"I","T","X">> >> ELSE << >>)

extract_case_specs(name, description) ==
  LET ffs == CaseFormFactors(ListingText(name, description))
  IN  IF ffs # << >> THEN "form_factor" :> ListVal(ffs) ELSE EmptyDict

\* component types are the lower-case enumeration values already
extract_specs(component_type, name, description) ==
  CASE component_type = "cpu" -> extract_cpu_specs(name, description)
    [] component_type = "gpu" -> extract_gpu_specs(name, description)
    [] component_type = "motherboard" -> extract_motherboard_specs(name, description)
    [] component_type = "ram" -> extract_ram_specs(name, description)
    [] component_type = "storage" -> extract_storage_specs(name, description)
    [] component_type = "psu" -> extract_psu_specs(name, description)
    [] component_type = "case" -> extract_case_specs(name, description)
    [] OTHER -> EmptyDict

-----------------------------------------------------------------------------
(* app/utils/name_parser.py *)

\* the manufacturer lexicon in dictionary (insertion) order
MANUFACTURERS ==
  << <<<<"i","n","t","e","l">>, <<"I","n","t","e","l">>>>, <<<<"a","m","d">>, <<"A","M","D">>>>, <<<<"r","y","z","e","n">>, <<"A","M","D">>>>,
     <<<<"c","o","r","e">>, <<"I","n","t","e","l">>>>, <<<<"p","e","n","t","i","u","m">>, <<"I","n","t","e","l">>>>, <<<<"c","e","l","e","r","o","n">>, <<"I","n","t","e","l">>>>,
     <<<<"t","h","r","e","a","d","r","i","p","p","e","r">>, <<"A","M","D">>>>, <<<<"e","p","y","c">>, <<"A","M","D">>>>,
     <<<<"n","v","i","d","i","a">>, <<"N","V","I","D","I","A">>>>, <<<<"g","e","f","o","r","c","e">>, <<"N","V","I","D","I","A">>>>, <<<<"r","t","x">>, <<"N","V","I","D","I","A">>>>,
     <<<<"g","t","x">>, <<"N","V","I","D","I","A">>>>, <<<<"g","t">>, <<"N","V","I","D","I","A">>>>, <<<<"r","a","d","e","o","n">>, <<"A","M","D">>>>,
     <<<<"r","x">>, <<"A","M","D">>>>,
     <<<<"a","s","u","s">>, <<"A","S","U","S">>>>, <<<<"m","s","i">>, <<"M","S","I">>>>, <<<<"g","i","g","a","b","y","t","e">>, <<"G","i","g","a","b","y","t","e">>>>,
     <<<<"a","s","r","o","c","k">>, <<"A","S","R","o","c","k">>>>, <<<<"e","v","g","a">>, <<"E","V","G","A">>>>, <<<<"b","i","o","s","t","a","r">>, <<"B","i","o","s","t","a","r">>>>,
     <<<<"c","o","r","s","a","i","r">>, <<"C","o","r","s","a","i","r">>>>, <<<<"g",".","s","k","i","l","l">>, <<"G",".","S","k","i","l","l">>>>,
     <<<<"k","i","n","g","s","t","o","n">>, <<"K","i","n","g","s","t","o","n">>>>, <<<<"c","r","u","c","i","a","l">>, <<"C","r","u","c","i","a","l">>>>,
     <<<<"s","a","m","s","u","n","g">>, <<"S","a","m","s","u","n","g">>>>, <<<<"h","y","p","e","r","x">>, <<"H","y","p","e","r","X">>>>,
     <<<<"t","e","a","m">>, <<"T","e","a","m"," ","G","r","o","u","p">>>>, <<<<"p","a","t","r","i","o","t">>, <<"P","a","t","r","i","o","t">>>>,
     <<<<"w","e","s","t","e","r","n"," ","d","i","g","i","t","a","l">>, <<"W","e","s","t","e","r","n"," ","D","i","g","i","t","a","l">>>>, <<<<"w","d">>, <<"W","e","s","t","e","r","n"," ","D","i","g","i","t","a","l">>>>,
     <<<<"s","e","a","g","a","t","e">>, <<"S","e","a","g","a","t","e">>>>, <<<<"s","a","n","d","i","s","k">>, <<"S","a","n","D","i","s","k">>>>, <<<<"a","d","a","t","a">>, <<"A","D","A","T","A">>>>,
     <<<<"s","e","a","s","o","n","i","c">>, <<"S","e","a","s","o","n","i","c">>>>, <<<<"b","e"," ","q","u","i","e","t">>, <<"b","e"," ","q","u","i","e","t","!">>>>,
     <<<<"c","o","o","l","e","r"," ","m","a","s","t","e","r">>, <<"C","o","o","l","e","r"," ","M","a","s","t","e","r">>>>, <<<<"t","h","e","r","m","a","l","t","a","k","e">>, <<"T","h","e","r","m","a","l","t","a","k","e">>>>,
     <<<<"a","n","t","e","c">>, <<"A","n","t","e","c">>>>,
     <<<<"n","z","x","t">>, <<"N","Z","X","T">>>>, <<<<"f","r","a","c","t","a","l"," ","d","e","s","i","g","n">>, <<"F","r","a","c","t","a","l"," ","D","e","s","i","g","n">>>>,
     <<<<"l","i","a","n"," ","l","i">>, <<"L","i","a","n"," ","L","i">>>>, <<<<"p","h","a","n","t","e","k","s">>, <<"P","h","a","n","t","e","k","s">>>> >>

CpuPrefixes ==
  { <<"i","n","t","e","l">>, <<"a","m","d">>, <<"r","y","z","e","n">>, <<"c","o","r","e">>, <<"p","e","n","t","i","u","m">>, <<"c","e","l","e","r","o","n">>,
    <<"t","h","r","e","a","d","r","i","p","p","e","r">>, <<"e","p","y","c">> }

GpuPrefixes == { <<"r","t","x">>, <<"g","t","x">>, <<"g","t">>, <<"r","x">>, <<"r","a","d","e","o","n">>, <<"g","e","f","o","r","c","e">> }

StopWords == { <<"n","e","w">>, <<"u","s","e","d">>, <<"o","c","c","a","s","i","o","n">>, <<"d","z","d">>, <<"d","a">>, <<"a","l","g","e","r","i","a">> }

\* str.strip()
RECURSIVE Strip(_)
Strip(s) ==
  IF s = << >> THEN s
  ELSE IF IsSpace(s[1]) THEN Strip(Tail(s))
  ELSE IF IsSpace(s[Len(s)]) THEN Strip(SubSeq(s, 1, Len(s) - 1))
  ELSE s

\* str.split(): the whitespace-delimited words
RECURSIVE Words(_)
Words(s) ==
  LET t == Strip(s)
  IN  IF t = << >> THEN << >>
      ELSE LET sp == { i \in 1..Len(t) : IsSpace(t[i]) }
           IN  IF sp = {} THEN <<t>>
               ELSE <<SubSeq(t, 1, MinOf(sp) - 1)>>
                    \o Words(SubSeq(t, MinOf(sp), Len(t)))

\* ' '.join(words)
RECURSIVE Join(_)
Join(ws) ==
  IF ws = << >> THEN << >>
  ELSE IF Len(ws) = 1 THEN ws[1]
  ELSE ws[1] \o <<" ">> \o Join(Tail(ws))

\* [A-Za-z0-9\-\s]
IsCpuModelChar(c) == IsUpper(c) \/ IsLower(c) \/ IsDigit(c) \/ c = "-" \/ IsSpace(c)

RECURSIVE CpuModelRunEnd(_, _)
CpuModelRunEnd(s, i) ==
  IF i <= Len(s) /\ IsCpuModelChar(s[i]) THEN CpuModelRunEnd(s, i + 1) ELSE i - 1

\* (?:Intel|AMD|...)\s+([A-Za-z0-9\-\s]+), IGNORECASE: group 1 starts after
\* the whitespace run, or on its last blank when no class character follows
CpuGroupStart(name, e) ==
  LET s == SpaceRunEnd(name, e + 1)
  IN  IF s + 1 <= Len(name) /\ IsCpuModelChar(name[s + 1]) THEN s + 1 ELSE s

CpuModelAt(name, i) ==
  \E p \in CpuPrefixes :
    /\ MatchAt(p, Lower(name), i)
    /\ SpaceRunEnd(name, i + Len(p)) >= i + Len(p)
    /\ CpuGroupStart(name, i + Len(p) - 1) > i + Len(p)
       \/ CpuGroupStart(name, i + Len(p) - 1) = SpaceRunEnd(name, i + Len(p)) + 1

CpuModel(name) ==
  LET hits == { i \in 1..Len(name) : CpuModelAt(name, i) }
  IN  IF hits = {} THEN << >>
      ELSE LET i == MinOf(hits)
               p == CHOOSE q \in CpuPrefixes : MatchAt(q, Lower(name), i)
               g == CpuGroupStart(name, i + Len(p) - 1)
           IN  Strip(Slice(name, g, CpuModelRunEnd(name, g)))

RECURSIVE LetterRunEnd(_, _)
LetterRunEnd(s, i) ==
  IF i <= Len(s) /\ (IsUpper(s[i]) \/ IsLower(s[i])) THEN LetterRunEnd(s, i + 1) ELSE i - 1

\* (?:RTX|GTX|GT|RX|Radeon|GeForce)\s*([0-9]+(?:\s*[A-Z]+)?), IGNORECASE
GpuDigitsStart(name, i, p) == SpaceRunEnd(name, i + Len(p)) + 1

GpuModelAt(name, i) ==
  \E p \in GpuPrefixes :
    /\ MatchAt(p, Lower(name), i)
    /\ GpuDigitsStart(name, i, p) <= Len(name)
    /\ IsDigit(name[GpuDigitsStart(name, i, p)])

GpuModel(name) ==
  LET hits == { i \in 1..Len(name) : GpuModelAt(name, i) }
  IN  IF hits = {} THEN << >>
      ELSE LET i == MinOf(hits)
               p == CHOOSE q \in GpuPrefixes :
                      /\ MatchAt(q, Lower(name), i)
                      /\ GpuDigitsStart(name, i, q) <= Len(name)
                      /\ IsDigit(name[GpuDigitsStart(name, i, q)])
               d == GpuDigitsStart(name, i, p)
               e == DigitRunEnd(name, d)
               l == SpaceRunEnd(name, e + 1) + 1
           IN  IF LetterRunEnd(name, l) >= l
                 THEN Strip(Slice(name, d, LetterRunEnd(name, l)))
                 ELSE Slice(name, d, e)

\* ([A-Z][0-9]+[A-Z]?[0-9]*), case-sensitive
MoboModelAt(name, i) ==
  /\ IsUpper(name[i])
  /\ i + 1 <= Len(name)
  /\ IsDigit(name[i + 1])

MoboModel(name) ==
  LET hits == { i \in 1..Len(name) : MoboModelAt(name, i) }
  IN  IF hits = {} THEN << >>
      ELSE LET i == MinOf(hits)
               d == DigitRunEnd(name, i + 1)
           IN  IF d + 1 <= Len(name) /\ IsUpper(name[d + 1])
                 THEN Slice(name, i, DigitRunEnd(name, d + 2))
                 ELSE Slice(name, i, d)

\* DDR[45][\-\s]*([0-9]+), IGNORECASE, and the f-string built from it
RamModel(name) ==
  LET low == Lower(name)
      hits == { i \in 1..Len(low) : DdrSpeedAt(low, i) }
  IN  IF hits = {} THEN << >>
      ELSE LET d == SepRunEnd(low, MinOf(hits) + 4) + 1
           IN  <<"D","D","R">>
               \o (IF Contains(low, <<"d","d","r","5">>) THEN <<"5">> ELSE <<"4">>)
               \o <<"-">> \o Slice(name, d, DigitRunEnd(name, d))

\* ([A-Z0-9]+\s*[A-Z0-9]+), case-sensitive
IsStorageChar(c) == IsUpper(c) \/ IsDigit(c)

RECURSIVE StorageRunEnd(_, _)
StorageRunEnd(s, i) ==
  IF i <= Len(s) /\ IsStorageChar(s[i]) THEN StorageRunEnd(s, i + 1) ELSE i - 1

StorageSecond(name, i) == SpaceRunEnd(name, StorageRunEnd(name, i) + 1) + 1

StorageModelAt(name, i) ==
  /\ IsStorageChar(name[i])
  /\ \/ StorageRunEnd(name, StorageSecond(name, i)) >= StorageSecond(name, i)
     \/ StorageRunEnd(name, i) > i

StorageModel(name) ==
  LET hits == { i \in 1..Len(name) : StorageModelAt(name, i) }
  IN  IF hits = {} THEN << >>
      ELSE LET i == MinOf(hits)
               s == StorageSecond(name, i)
           IN  IF StorageRunEnd(name, s) >= s
                 THEN Slice(name, i, StorageRunEnd(name, s))
                 ELSE Slice(name, i, StorageRunEnd(name, i))

\* the model of the per-category pattern ("" when none matched)
PatternModel(name, component_type) ==
  CASE component_type = "cpu" -> CpuModel(name)
    [] component_type = "gpu" -> GpuModel(name)
    [] component_type = "motherboard" -> MoboModel(name)
    [] component_type = "ram" -> RamModel(name)
    [] component_type = "storage" -> StorageModel(name)
    [] OTHER -> << >>

\* the words after the first, stop words removed: ' '.join(filtered[1:3])
FallbackModel(name) ==
  LET filtered == SelectSeq(Words(name), LAMBDA w : Lower(w) \notin StopWords)
  IN  IF Len(filtered) > 1
        THEN Join(SubSeq(filtered, 2, IF Len(filtered) < 3 THEN Len(filtered) ELSE 3))
        ELSE << >>

parse_component_name(name, component_type) ==
  IF name = << >> THEN [manufacturer |-> None, model |-> None]
  ELSE LET m1 == PatternModel(name, component_type)
           m2 == IF m1 = << >> THEN FallbackModel(name) ELSE m1
       IN  [manufacturer |-> FirstProbe(Lower(name), MANUFACTURERS),
            model |-> Some(IF m2 = << >>
                             THEN Slice(name, 1, IF Len(name) < 100 THEN Len(name) ELSE 100)
                             ELSE m2)]

-----------------------------------------------------------------------------
(* app/utils/benchmark_calculator.py -- scores in 1/10000 points *)

\* n points as a fixed-point score
Pts(n) == n * 10000

MinInt(a, b) == IF a <= b THEN a ELSE b

\* <<key, base, gaming, productivity, ai>>, in dictionary order
CPU_SCORES ==
  << <<<<"i","9">>, 90, 85, 95, 80>>, <<<<"i","7">>, 75, 80, 85, 70>>,
     <<<<"i","5">>, 60, 70, 70, 55>>, <<<<"i","3">>, 40, 50, 50, 35>>,
     <<<<"r","y","z","e","n"," ","9">>, 92, 88, 98, 85>>, <<<<"r","y","z","e","n"," ","7">>, 78, 82, 88, 75>>,
     <<<<"r","y","z","e","n"," ","5">>, 65, 72, 75, 60>>, <<<<"r","y","z","e","n"," ","3">>, 45, 55, 55, 40>> >>

GPU_SCORES ==
  << <<<<"r","t","x"," ","4","0","9","0">>, 100, 100, 95, 100>>, <<<<"r","t","x"," ","4","0","8","0">>, 90, 95, 90, 95>>,
     <<<<"r","t","x"," ","4","0","7","0">>, 75, 85, 75, 80>>, <<<<"r","t","x"," ","4","0","6","0">>, 60, 70, 60, 65>>,
     <<<<"r","t","x"," ","3","0","9","0">>, 95, 95, 90, 98>>, <<<<"r","t","x"," ","3","0","8","0">>, 85, 90, 85, 90>>,
     <<<<"r","t","x"," ","3","0","7","0">>, 70, 80, 70, 75>>, <<<<"r","t","x"," ","3","0","6","0">>, 55, 65, 55, 60>>,
     <<<<"g","t","x"," ","1","6","6","0">>, 40, 50, 35, 30>>, <<<<"g","t","x"," ","1","6","5","0">>, 30, 40, 25, 20>>,
     <<<<"r","x"," ","7","9","0","0">>, 88, 92, 85, 75>>, <<<<"r","x"," ","7","8","0","0">>, 75, 82, 70, 60>>,
     <<<<"r","x"," ","7","7","0","0">>, 65, 72, 60, 50>>, <<<<"r","x"," ","6","6","0","0">>, 50, 60, 45, 35>>,
     <<<<"r","x"," ","6","5","0","0">>, 35, 45, 30, 25>> >>

\* the first table row whose key occurs in the lower-cased name, else the
\* neutral tuple
TierScores(name, table, neutral) ==
  LET hits == { i \in 1..Len(table) : Contains(Lower(name), table[i][1]) }
      row == IF hits = {} THEN neutral ELSE Tail(table[MinOf(hits)])
  IN  [base |-> Pts(row[1]), gaming |-> Pts(row[2]),
       productivity |-> Pts(row[3]), ai |-> Pts(row[4])]

\* a returned dictionary without the caps, against which the range of the
\* scores is tested
Uncapped(base, gaming, productivity, ai) ==
  [benchmark_score |-> base, gaming_score |-> gaming,
   productivity_score |-> productivity, ai_score |-> ai]

\* the returned dictionary, each score capped with min(score, 100.0)
Capped(base, gaming, productivity, ai) ==
  [benchmark_score |-> MinInt(base, Pts(100)),
   gaming_score |-> MinInt(gaming, Pts(100)),
   productivity_score |-> MinInt(productivity, Pts(100)),
   ai_score |-> MinInt(ai, Pts(100))]

calculate_cpu_scores(name, specs) ==
  LET t == TierScores(name, CPU_SCORES, <<50, 50, 50, 45>>)
      cores == GetOr(specs, "cores", 0)
      clock == GetOr(specs, "base_clock_ghz", 0)
  IN  Capped(t.base,
             t.gaming + (IF clock > 0
                           THEN MinInt((clock - 3000) * 100, Pts(15)) ELSE 0),
             t.productivity + (IF cores > 0
                                 THEN MinInt(Pts(cores * 2), Pts(20)) ELSE 0),
             t.ai + (IF cores > 0
                       THEN MinInt(cores * 15000, Pts(15)) ELSE 0))

VramBonus(vram) ==
  IF vram >= 24 THEN Pts(20)
  ELSE IF vram >= 16 THEN Pts(15)
  ELSE IF vram >= 12 THEN Pts(10)
  ELSE IF vram >= 8 THEN Pts(5)
  ELSE 0

calculate_gpu_scores(name, specs) ==
  LET t == TierScores(name, GPU_SCORES, <<40, 45, 40, 35>>)
      x == IF Get(specs, "memory_type") = Some(<<"G","D","D","R","6","X">>) THEN Pts(5) ELSE 0
  IN  Capped(t.base, t.gaming + x, t.productivity,
             t.ai + VramBonus(GetOr(specs, "vram_gb", 0)) + x)

calculate_ram_scores(name, specs) ==
  LET capacity == GetOr(specs, "capacity_gb", 0)
      speed == GetOr(specs, "ram_speed", 0)
      ram_type == GetOr(specs, "ram_type", << >>)
      base == MinInt(capacity * 31250, Pts(100))
              + (IF ram_type = <<"D","D","R","5">> THEN Pts(10)
                 ELSE IF ram_type = <<"D","D","R","4">> /\ speed >= 3600 THEN Pts(5)
                 ELSE 0)
  IN  Capped(base, (base * 3) \div 10,
             MinInt(capacity * 62500, Pts(100)),
             MinInt(capacity * 31250, Pts(100)))

calculate_storage_scores(name, specs) ==
  LET capacity == GetOr(specs, "capacity_gb", 0)
      storage_type == GetOr(specs, "type", << >>)
      base == (IF Contains(storage_type, <<"N","V","M","e">>) THEN Pts(80)
               ELSE IF Contains(storage_type, <<"S","S","D">>) THEN Pts(60)
               ELSE Pts(40))
              + (IF capacity >= 2000 THEN Pts(10)
                 ELSE IF capacity >= 1000 THEN Pts(5)
                 ELSE 0)
  IN  Capped(base, (base * 8) \div 10, base, (base * 7) \div 10)

calculate_psu_scores(name, specs) ==
  LET wattage == GetOr(specs, "wattage", 0)
      efficiency == GetOr(specs, "efficiency", << >>)
      base == (IF wattage >= 1000 THEN Pts(90)
               ELSE IF wattage >= 750 THEN Pts(80)
               ELSE IF wattage >= 650 THEN Pts(70)
               ELSE IF wattage >= 550 THEN Pts(60)
               ELSE Pts(50))
              + (IF Contains(efficiency, <<"T","i","t","a","n","i","u","m">>) THEN Pts(10)
                 ELSE IF Contains(efficiency, <<"P","l","a","t","i","n","u","m">>) THEN Pts(8)
                 ELSE IF Contains(efficiency, <<"G","o","l","d">>) THEN Pts(5)
                 ELSE IF Contains(efficiency, <<"B","r","o","n","z","e">>) THEN Pts(2)
                 ELSE 0)
  IN  Capped(base, base, base, base)

calculate_benchmark_scores(component_type, name, specs) ==
  CASE component_type = "cpu" -> calculate_cpu_scores(name, specs)
    [] component_type = "gpu" -> calculate_gpu_scores(name, specs)
    [] component_type = "ram" -> calculate_ram_scores(name, specs)
    [] component_type = "storage" -> calculate_storage_scores(name, specs)
    [] component_type = "psu" -> calculate_psu_scores(name, specs)
    [] OTHER -> Capped(Pts(50), Pts(50), Pts(50), Pts(50))

-----------------------------------------------------------------------------
(* The listings the marketplace serves (the scraper's output records) *)

\* the clock counts hours: its last value, and the hours between two
\* readings that differ
MaxTime == 49

TickHours == 49

\* number of runs of each periodic task
MaxRuns == 1

\* One scraped listing, as _parse_listing_item returns it.
ListingOf(ct, name, price, price_text, description, url) ==
  [name |-> name, price_dzd |-> price, original_price |-> price_text,
   condition |-> "new", seller_location |-> None, source_url |-> Some(url),
   source_platform |-> "ouedkniss", component_type |-> ct,
   description |-> description]

\* The listings on the site.  The first two share the match key
\* (name, price) and differ in their description only; the last is a case
\* whose title names a form factor.
Pool ==
  << ListingOf("cpu", <<"R","y","z","e","n"," ","5"," ","5","6","0","0","X">>, 30000, <<"3","0","0","0","0"," ","D","A">>, <<"A","M","4"," ","6","5","W">>, "u1"),
     ListingOf("cpu", <<"R","y","z","e","n"," ","5"," ","5","6","0","0","X">>, 30000, <<"3","0","0","0","0"," ","D","A">>, <<"6"," ","c","o","r","e","s">>, "u2"),
     ListingOf("case", <<"N","Z","X","T"," ","H","5","1","0"," ","A","T","X">>, 9000, <<"9","0","0","0"," ","D","A">>, <<>>, "u3") >>

PoolIdx == DOMAIN Pool

\* the listing pipeline of scrape_component_type, lines 75-94, per listing
NameData(l) == parse_component_name(l.name, l.component_type)

Specs(l) == extract_specs(l.component_type, l.name, l.description)

Scores(l) == calculate_benchmark_scores(l.component_type, l.name, Specs(l))

\* what lines 75-94 compute for a listing
Pipeline(l) == [name_data |-> NameData(l), specs |-> Specs(l), scores |-> Scores(l)]

\* the pages of a category on the site: one listing per page, in Pool order
RECURSIVE PagesFrom(_, _)
PagesFrom(ct, i) ==
  IF i > Len(Pool) THEN << >>
  ELSE IF Pool[i].component_type = ct THEN << <<i>> >> \o PagesFrom(ct, i + 1)
  ELSE PagesFrom(ct, i + 1)

Site(ct) == PagesFrom(ct, 1)

\* OuedknissScraper.scrape_category: pages 1..max_pages in order; the
\* listings of a page are appended unless its request raises
RECURSIVE Fetched(_, _, _)
Fetched(pages, ok, p) ==
  IF p > Len(pages) THEN << >>
  ELSE (IF p \in ok THEN pages[p] ELSE << >>) \o Fetched(pages, ok, p + 1)

scrape_category(ct, max_pages) ==
  LET pages == SubSeq(Site(ct), 1, MinInt(max_pages, Len(Site(ct))))
  IN  { Fetched(pages, ok, 1) : ok \in SUBSET (1..Len(pages)) }

-----------------------------------------------------------------------------
(* State *)

VARIABLES
  db,      \* the components table: sequence of rows, the id is the index
  now,     \* the clock read by datetime.utcnow() / func.now()
  wk,      \* per task: control state, batch, session
  cache,   \* whether a response is cached under the "components" prefix
  pipeline, \* per listing of the site, what lines 75-94 compute for it
  creq,    \* the arguments of a tool call: the requested component ids, or
           \* <<component_type, name, specs>> for the benchmark calculator
  cres,    \* what the call returned, <<"none">> before it returns
  sc,      \* one run of scrape_category, page by page: its locals and the
           \* requests and sleeps it has made
  invalidated \* the tasks that have called invalidate_cache("components")

vars == <<db, now, wk, cache, pipeline, creq, cres, sc, invalidated>>

\* no run of scrape_category
NoScrape == [pc |-> "none", page |-> 0, components |-> << >>, log |-> << >>]

\* scrape_all_components (daily) and update_component_prices (hourly)
Workers == {"daily", "hourly"}

\* max_pages=10 at line 34, max_pages=2 at line 179
max_pages(w) == IF w = "daily" THEN 10 ELSE 2

component_types(w) ==
  IF w = "daily"
    THEN <<"gpu", "cpu", "motherboard", "ram", "storage", "psu", "case", "cooling">>
    ELSE <<"gpu", "cpu", "motherboard", "ram", "storage", "psu">>

\* Python truthiness of an optional string / number / dict
TruthyStr(o) == ~IsNone(o) /\ o[1] # << >>

TruthyNum(o) == ~IsNone(o) /\ o[1] # 0

TruthyDict(d) == DOMAIN d # {}

\* a lookup in the manner of scripts/run_scraper.py (name and source_url),
\* against which the idempotence property is tested
MatchesNameAndUrl(row, l) == row.name = l.name /\ row.source_url = l.source_url

\* Component.name == comp_data["name"], Component.price_dzd == comp_data["price_dzd"]
Matches(row, l) == row.name = l.name /\ row.price_dzd = l.price_dzd

\* the ids .first() may return (the query has no ORDER BY)
MatchingIds(d, l) == { i \in 1..Len(d) : Matches(d[i], l) }

\* Component(...) of lines 120-143 for listing i at time t
NewRow(i, t) ==
  LET l == Pool[i]
      specs == pipeline[i].specs
  IN  [component_type |-> l.component_type,
       name |-> l.name,
       manufacturer |-> pipeline[i].name_data.manufacturer,
       model |-> pipeline[i].name_data.model,
       price_dzd |-> l.price_dzd,
       original_price |-> l.original_price,
       condition |-> l.condition,
       in_stock |-> TRUE,
       source_url |-> l.source_url,
       source_platform |-> l.source_platform,
       seller_location |-> l.seller_location,
       specs |-> specs,
       benchmark_score |-> Some(pipeline[i].scores.benchmark_score),
       gaming_score |-> Some(pipeline[i].scores.gaming_score),
       productivity_score |-> Some(pipeline[i].scores.productivity_score),
       ai_score |-> Some(pipeline[i].scores.ai_score),
       socket_type |-> Get(specs, "socket_type"),
       ram_type |-> Get(specs, "ram_type"),
       ram_speed |-> Get(specs, "ram_speed"),
       tdp_watts |-> Get(specs, "tdp_watts"),
       form_factor |-> Get(specs, "form_factor"),
       created_at |-> t,
       updated_at |-> None,
       last_scraped_at |-> Some(t),
       src |-> i]

\* the row the INSERT of the flush writes: last_scraped_at is the task's
\* utcnow() of line 142, created_at the server's now() at the flush
Inserted(i, read, t) == [NewRow(i, t) EXCEPT !.last_scraped_at = Some(read)]

\* new `or` old for a score
MergeScore(new, old) == IF TruthyNum(Some(new)) THEN Some(new) ELSE old

\* specs or existing.specs
MergeSpecs(new, old) == IF TruthyDict(new) THEN new ELSE old

\* a guarded assignment: the new value under the guard, else the old one
Keep(guard, new, old) == IF guard THEN new ELSE old

\* the assignments of lines 98-117 to the loaded row e, in program order,
\* as <<attribute, value>>; a guarded assignment that is skipped assigns
\* the attribute its own value
UpdateAssignments(e, i, t) ==
  << <<"in_stock", TRUE>>,
     <<"last_scraped_at", Some(t)>>,
     <<"price_dzd", Pool[i].price_dzd>>,
     <<"manufacturer", Keep(TruthyStr(pipeline[i].name_data.manufacturer),
                            pipeline[i].name_data.manufacturer, e.manufacturer)>>,
     <<"model", Keep(TruthyStr(pipeline[i].name_data.model), pipeline[i].name_data.model, e.model)>>,
     <<"specs", MergeSpecs(pipeline[i].specs, e.specs)>>,
     <<"benchmark_score", MergeScore(pipeline[i].scores.benchmark_score, e.benchmark_score)>>,
     <<"gaming_score", MergeScore(pipeline[i].scores.gaming_score, e.gaming_score)>>,
     <<"productivity_score",
       MergeScore(pipeline[i].scores.productivity_score, e.productivity_score)>>,
     <<"ai_score", MergeScore(pipeline[i].scores.ai_score, e.ai_score)>>,
     <<"socket_type", Keep(TruthyStr(Get(pipeline[i].specs, "socket_type")),
                           Get(pipeline[i].specs, "socket_type"), e.socket_type)>>,
     <<"ram_type", Keep(TruthyStr(Get(pipeline[i].specs, "ram_type")),
                        Get(pipeline[i].specs, "ram_type"), e.ram_type)>>,
     <<"ram_speed", Keep(TruthyNum(Get(pipeline[i].specs, "ram_speed")),
                         Get(pipeline[i].specs, "ram_speed"), e.ram_speed)>>,
     <<"tdp_watts", Keep(TruthyNum(Get(pipeline[i].specs, "tdp_watts")),
                         Get(pipeline[i].specs, "tdp_watts"), e.tdp_watts)>>,
     <<"form_factor", Keep(~IsNone(Get(pipeline[i].specs, "form_factor")),
                           Get(pipeline[i].specs, "form_factor"), e.form_factor)>> >>

\* the session's copy of row e after the first k of the assignments a
RECURSIVE Assigned(_, _, _)
Assigned(e, a, k) ==
  IF k = 0 THEN e
  ELSE [Assigned(e, a, k - 1) EXCEPT ![a[k][1]] = a[k][2]]

\* the attributes the flush writes: those whose value differs from the
\* loaded one, and last_scraped_at (utcnow() never repeats a value)
Dirty(loaded, pending) ==
  { f \in DOMAIN loaded : f = "last_scraped_at" \/ pending[f] # loaded[f] }

\* a form_factor that is a Python list cannot be bound to the String(50)
\* column: the flush raises
BindError(row) == ~IsNone(row.form_factor) /\ IsListVal(row.form_factor[1])

\* UPDATE components SET <dirty attributes>, updated_at = now() WHERE id = ...
\* (src is history, not a column: the listing whose ingestion the row's
\* content results from, 0 once a flush over a stale load has mixed the
\* writes of two ingestions)
Flushed(cur, loaded, pending, i, t) ==
  [f \in DOMAIN cur |->
     IF f = "updated_at" THEN Some(t)
     ELSE IF f = "src" THEN (IF cur = loaded THEN i ELSE 0)
     ELSE IF f \in Dirty(loaded, pending) THEN pending[f]
     ELSE cur[f]]

\* timedelta(hours=48)
StaleHours == 48

\* a filter that takes a record scraped exactly at the cutoff too, against
\* which the sweep property is tested
StaleAtCutoff(row, t) ==
  /\ row.in_stock
  /\ ~IsNone(row.last_scraped_at)
  /\ row.last_scraped_at[1] <= t - StaleHours

\* the filter of the sweep at time t: in stock, and last scraped before
\* the cutoff (a NULL last_scraped_at compares as unknown and is left out)
Stale(row, t) ==
  /\ row.in_stock
  /\ ~IsNone(row.last_scraped_at)
  /\ row.last_scraped_at[1] < t - StaleHours

RECURSIVE SweptDeleting(_, _)
\* a sweep that deletes the stale rows, against which the permanence of the
\* records is tested
SweptDeleting(d, t) ==
  IF d = << >> THEN << >>
  ELSE IF Stale(d[1], t) THEN SweptDeleting(Tail(d), t)
  ELSE <<d[1]>> \o SweptDeleting(Tail(d), t)

\* UPDATE components SET in_stock = false, updated_at = now() WHERE
\* last_scraped_at < cutoff AND in_stock = true   (src, the history of the
\* row, no longer names one listing)
Swept(d, t) ==
  [i \in DOMAIN d |->
     IF Stale(d[i], t)
       THEN [d[i] EXCEPT !.in_stock = FALSE, !.updated_at = Some(t), !.src = 0]
       ELSE d[i]]

\* a rollback that lets the session's pending row through, against which
\* the atomicity property is tested
RollbackPartial(d, id, pending) ==
  IF IsNone(pending) THEN d
  ELSE IF id = 0 THEN Append(d, pending[1])
  ELSE [d EXCEPT ![id] = pending[1]]

\* db.rollback(): the session's pending changes are discarded, the table
\* keeps what was committed
Rollback(d, id, pending) == d

\* an except branch that leaves the loop, against which the batch property
\* is tested
AbortBatch(idx, n) == n + 1

\* the except branch: `continue` with the next listing of the batch
ResumeAfterError(idx, n) == idx + 1

-----------------------------------------------------------------------------
(* Initial state *)

IdleWorker ==
  [pc |-> "idle", types |-> << >>, batch |-> << >>, idx |-> 1,
   loaded |-> None, since |-> 0, saved_count |-> 0, total |-> 0, runs |-> 0,
   outcome |-> << >>]

\* one entry of the per-listing history of a batch: what became of listing
\* li, the row id it touched (0: none), and, for a failure, whether the
\* session held unflushed changes when it was rolled back
Outcome(kind, li, id, partial) ==
  [kind |-> kind, li |-> li, id |-> id, partial |-> partial]

IngestInit ==
  /\ db = << >>
  /\ now = 0
  /\ wk = [w \in Workers |-> IdleWorker]
  /\ cache = FALSE
  /\ sc = NoScrape
  /\ invalidated = {}
  /\ pipeline = [i \in PoolIdx |-> Pipeline(Pool[i])]

Init ==
  /\ IngestInit
  /\ creq = << >>
  /\ cres = <<"none">>

-----------------------------------------------------------------------------
(* app/tasks/scraper_tasks.py *)

\* the listing a worker is processing
Cur(w) == wk[w].batch[wk[w].idx]

\* control after the listing at idx is done, n the batch length
AfterListing(idx, n) == IF idx > n THEN "return" ELSE "lookup"

\* celery beat starts scrape_all_components / update_component_prices
StartTask(w) ==
  /\ wk[w].pc = "idle"
  /\ wk[w].runs < MaxRuns
  /\ wk' = [wk EXCEPT ![w].pc = "scrape",
                      ![w].types = component_types(w),
                      ![w].total = 0,
                      ![w].runs = @ + 1]
  /\ UNCHANGED <<db, now, cache, pipeline, creq, cres, sc, invalidated>>

\* scrape_component_type, lines 58-65: a fresh session and the scraped
\* batch.  With no listing the loop body never runs and the call returns 0
\* (lines 154-155), the caller adds it and moves on to the next type.
ScrapeCategory(w) ==
  /\ wk[w].pc = "scrape"
  /\ wk[w].types # << >>
  /\ \E b \in scrape_category(Head(wk[w].types), max_pages(w)) :
       wk' = [wk EXCEPT ![w].pc = IF b = << >> THEN "scrape" ELSE "lookup",
                        ![w].types = IF b = << >> THEN Tail(@) ELSE @,
                        ![w].batch = b,
                        ![w].idx = 1,
                        ![w].loaded = None,
                        ![w].saved_count = 0,
                        ![w].outcome = << >>]
  /\ UNCHANGED <<db, now, cache, pipeline, creq, cres, sc, invalidated>>

\* lines 70-73: the match-key query; .first() returns any matching row.
\* since is the clock at the query: the task reads datetime.utcnow()
\* (line 99 or 142) after it and before the commit of line 147
Lookup(w) ==
  /\ wk[w].pc = "lookup"
  /\ LET ids == MatchingIds(db, Pool[Cur(w)])
     IN  \/ /\ ids = {}
            /\ wk' = [wk EXCEPT ![w].pc = "write", ![w].loaded = None,
                                ![w].since = now]
         \/ \E id \in ids :
              wk' = [wk EXCEPT ![w].pc = "write",
                               ![w].loaded = Some(<<id, db[id]>>),
                               ![w].since = now]
  /\ UNCHANGED <<db, now, cache, pipeline, creq, cres, sc, invalidated>>

\* the except branch of lines 149-152 for the listing at idx
Failed(w, partial, counted) ==
  wk' = [wk EXCEPT
              ![w].pc = AfterListing(ResumeAfterError(wk[w].idx, Len(wk[w].batch)),
                                     Len(wk[w].batch)),
              ![w].idx = ResumeAfterError(wk[w].idx, Len(wk[w].batch)),
              ![w].loaded = None,
              ![w].since = 0,
              ![w].saved_count = @ + (IF counted THEN 1 ELSE 0),
              ![w].outcome =
                 Append(@, Outcome("failed", Cur(w),
                                   IF IsNone(wk[w].loaded) THEN 0 ELSE wk[w].loaded[1][1],
                                   partial))]

\* the values datetime.utcnow() of line 99 / 142 may have returned to w:
\* the clock was read between the query and the commit
UtcNow(w) == {wk[w].since, now}

\* the query raises (connection lost): rollback, continue
LookupFail(w) ==
  /\ wk[w].pc = "lookup"
  /\ db' = Rollback(db, 0, None)
  /\ Failed(w, FALSE, FALSE)
  /\ UNCHANGED <<now, cache, pipeline, creq, cres, sc, invalidated>>

\* lines 96-117 raise after k assignments to the loaded row, or the commit
\* of line 147 raises (k = all of them): rollback, continue
UpdateFail(w) ==
  /\ wk[w].pc = "write"
  /\ ~IsNone(wk[w].loaded)
  /\ \E e \in {wk[w].loaded[1][2]} :
       \E t \in UtcNow(w), k \in 0..Len(UpdateAssignments(e, Cur(w), now)) :
         \E a \in {UpdateAssignments(e, Cur(w), t)} :
           \E pending \in {Assigned(e, a, k)} :
             /\ db' = Rollback(db, wk[w].loaded[1][1], Some(pending))
             /\ Failed(w, pending # e, FALSE)
  /\ UNCHANGED <<now, cache, pipeline, creq, cres, sc, invalidated>>

\* lines 120-147 raise: before db.add (nothing counted) or at the commit
\* (saved_count already incremented)
InsertFail(w) ==
  /\ wk[w].pc = "write"
  /\ IsNone(wk[w].loaded)
  /\ \E t \in UtcNow(w) : db' = Rollback(db, 0, Some(Inserted(Cur(w), t, now)))
  /\ \E counted \in BOOLEAN : Failed(w, counted, counted)
  /\ UNCHANGED <<now, cache, pipeline, creq, cres, sc, invalidated>>

\* lines 96-117 and 147: merge into the loaded row, flush, commit
UpdateCommit(w) ==
  /\ wk[w].pc = "write"
  /\ ~IsNone(wk[w].loaded)
  /\ \E id \in {wk[w].loaded[1][1]}, e \in {wk[w].loaded[1][2]}, i \in {Cur(w)},
        t \in UtcNow(w) :
       \E a \in {UpdateAssignments(e, i, t)} :
         \E pending \in {Assigned(e, a, Len(a))} :
           /\ ~BindError(pending)
           /\ db' = [db EXCEPT ![id] = Flushed(db[id], e, pending, i, now)]
           /\ wk' = [wk EXCEPT
                       ![w].pc = AfterListing(wk[w].idx + 1, Len(wk[w].batch)),
                       ![w].idx = @ + 1,
                       ![w].loaded = None,
                       ![w].since = 0,
                       ![w].outcome = Append(@, Outcome("updated", i, id, FALSE))]
  /\ UNCHANGED <<now, cache, pipeline, creq, cres, sc, invalidated>>

\* lines 118-147: insert the new row, count it, commit
InsertCommit(w) ==
  /\ wk[w].pc = "write"
  /\ IsNone(wk[w].loaded)
  /\ \E t \in UtcNow(w) : \E row \in {Inserted(Cur(w), t, now)} :
       /\ ~BindError(row)
       /\ db' = Append(db, row)
  /\ wk' = [wk EXCEPT ![w].pc = AfterListing(wk[w].idx + 1, Len(wk[w].batch)),
                      ![w].idx = @ + 1,
                      ![w].loaded = None,
                      ![w].since = 0,
                      ![w].saved_count = @ + 1,
                      ![w].outcome = Append(@, Outcome("created", Cur(w), Len(db) + 1, FALSE))]
  /\ UNCHANGED <<now, cache, pipeline, creq, cres, sc, invalidated>>

\* lines 154-155 and the caller's `total += count`; the locals of the call
\* are gone
ReturnCount(w) ==
  /\ wk[w].pc = "return"
  /\ wk' = [wk EXCEPT ![w].pc = "scrape",
                      ![w].types = Tail(@),
                      ![w].total = @ + wk[w].saved_count,
                      ![w].batch = << >>,
                      ![w].idx = 1,
                      ![w].saved_count = 0,
                      ![w].outcome = << >>]
  /\ UNCHANGED <<db, now, cache, pipeline, creq, cres, sc, invalidated>>

\* lines 40-44 / 184-188: invalidate_cache("components") and return
FinishTask(w) ==
  /\ wk[w].pc = "scrape"
  /\ wk[w].types = << >>
  /\ cache' = FALSE
  /\ invalidated' = invalidated \cup {w}
  /\ wk' = [wk EXCEPT ![w].pc = "idle"]
  /\ UNCHANGED <<db, now, pipeline, creq, cres, sc>>

\* what json.dumps of cache.set (core/cache.py line 60) accepts
JsonTypes == {"dict", "list", "str", "int", "float", "bool", "NoneType"}

\* cache.set: TRUE when the value was stored; a value json.dumps cannot
\* serialise raises inside set, which logs the error and returns False
CacheSet(value_type) == value_type \in JsonTypes

\* a list_components request through @cached (core/cache.py lines 116-131):
\* on a miss the handler runs and its result, a ComponentListResponse
\* (api/routes.py lines 167-172), is handed to cache.set
ListComponents ==
  /\ cache' = (cache \/ CacheSet("ComponentListResponse"))
  /\ UNCHANGED <<db, now, wk, pipeline, creq, cres, sc, invalidated>>

\* lines 196-218: mark_out_of_stock; when the statement or the commit
\* raises, the rollback leaves the table as it was
MarkOutOfStock ==
  /\ \E ok \in BOOLEAN : db' = IF ok THEN Swept(db, now) ELSE db
  /\ UNCHANGED <<now, wk, cache, pipeline, creq, cres, sc, invalidated>>

\* time passes
Tick ==
  /\ now + TickHours <= MaxTime
  /\ now' = now + TickHours
  /\ UNCHANGED <<db, wk, cache, pipeline, creq, cres, sc, invalidated>>

Next ==
  \/ \E w \in Workers :
       \/ StartTask(w)
       \/ ScrapeCategory(w)
       \/ Lookup(w)
       \/ LookupFail(w)
       \/ UpdateFail(w)
       \/ InsertFail(w)
       \/ UpdateCommit(w)
       \/ InsertCommit(w)
       \/ ReturnCount(w)
       \/ FinishTask(w)
  \/ MarkOutOfStock
  \/ ListComponents
  \/ Tick

Spec == Init /\ [][Next]_vars

-----------------------------------------------------------------------------
(* app/agent/tools.py: check_compatibility *)

\* largest number of ids in one request
MaxRequest == 5

\* a committed row of the components table with the columns the
\* compatibility check reads; every other column is NULL
StoredRow(ct, name, specs, socket_type, ram_type, tdp_watts, form_factor) ==
  [component_type |-> ct, name |-> name, manufacturer |-> None, model |-> None,
   price_dzd |-> 1000, original_price |-> <<"1","0","0","0"," ","D","A">>, condition |-> "new",
   in_stock |-> TRUE, source_url |-> None, source_platform |-> "seed",
   seller_location |-> None, specs |-> specs,
   benchmark_score |-> None, gaming_score |-> None,
   productivity_score |-> None, ai_score |-> None,
   socket_type |-> socket_type, ram_type |-> ram_type, ram_speed |-> None,
   tdp_watts |-> tdp_watts, form_factor |-> form_factor,
   created_at |-> 0, updated_at |-> None, last_scraped_at |-> None, src |-> 0]

\* a row with its three use-case scores set
Scored(row, gaming, productivity, ai) ==
  [row EXCEPT !.gaming_score = Some(Pts(gaming)),
              !.productivity_score = Some(Pts(productivity)),
              !.ai_score = Some(Pts(ai))]

\* A catalog the check runs against.  Every row is valid for the schema of
\* models.py; a case's form_factor is a string there (String(50)), and a
\* power supply has the tdp_watts column like every other component.
Catalog ==
  << Scored(StoredRow("cpu", <<"c","1">>, EmptyDict, Some(<<"A","M","4">>), None, Some(65), None),
            72, 75, 60),
     StoredRow("cpu", <<"c","2">>, EmptyDict, Some(<<"L","G","A","1","7","0","0">>), None, Some(125), None),
     StoredRow("cpu", <<"c","3">>, EmptyDict, None, None, None, None),
     StoredRow("motherboard", <<"m","1">>, EmptyDict, Some(<<"A","M","4">>), Some(<<"D","D","R","4">>), None,
               Some(StrVal(<<"A","T","X">>))),
     StoredRow("motherboard", <<"m","2">>, EmptyDict, Some(<<"A","M","4">>), Some(<<"D","D","R","4">>), None,
               Some(StrVal(<<"m","A","T","X">>))),
     StoredRow("motherboard", <<"m","3">>, EmptyDict, Some(<<"L","G","A","1","7","0","0">>), Some(<<"D","D","R","5">>), None,
               Some(StrVal(<<"I","T","X">>))),
     StoredRow("motherboard", <<"m","4">>, EmptyDict, None, None, None, None),
     StoredRow("ram", <<"r","1">>, "capacity_gb" :> 16, None, Some(<<"D","D","R","4">>), None, None),
     StoredRow("ram", <<"r","2">>, "capacity_gb" :> 64, None, Some(<<"D","D","R","5">>), None, None),
     StoredRow("ram", <<"r","3">>, EmptyDict, None, None, None, None),
     StoredRow("psu", <<"p","1">>, "wattage" :> 85, None, None, None, None),
     StoredRow("psu", <<"p","2">>, "wattage" :> 84, None, None, Some(10), None),
     StoredRow("psu", <<"p","3">>, EmptyDict, None, None, None, None),
     StoredRow("case", <<"k","1">>, EmptyDict, None, None, None, Some(StrVal(<<"A","T","X">>))),
     StoredRow("case", <<"k","2">>, EmptyDict, None, None, None, Some(StrVal(<<"m","A","T","X">>))),
     StoredRow("case", <<"k","3">>, EmptyDict, None, None, None, None),
     Scored(StoredRow("gpu", <<"g","1">>, EmptyDict, None, None, Some(20), None), 90, 80, 70),
     StoredRow("gpu", <<"g","2">>, EmptyDict, None, None, None, None) >>

Range(s) == { s[i] : i \in DOMAIN s }

RECURSIVE SortedSeq(_)
SortedSeq(S) ==
  IF S = {} THEN << >>
  ELSE LET m == CHOOSE x \in S : \A y \in S : x <= y
       IN  <<m>> \o SortedSeq(S \ {m})

\* component_ids: up to MaxRequest ids of the catalog and one id past it,
\* or one id given twice
Requests ==
  { SortedSeq(S) : S \in { T \in SUBSET (1..(Len(Catalog) + 1)) :
                             Cardinality(T) <= MaxRequest } }
  \cup { <<i, i>> : i \in 1..Len(Catalog) }

\* db.query(Component).filter(Component.id.in_(component_ids)).all()
Components(d, ids) == { i \in 1..Len(d) : i \in Range(ids) }

\* comp_map = {comp.component_type.value: comp for comp in components}:
\* one component per type present, the last of its type in the order the
\* query returned them (the query has no ORDER BY)
CompMaps(d, comps) ==
  LET types == { d[i].component_type : i \in comps }
  IN  { cm \in [types -> comps] : \A t \in types : d[cm[t]].component_type = t }

Issue(severity, type, args) == [severity |-> severity, type |-> type, args |-> args]

\* a socket rule that only warns, against which the socket property is
\* tested
SocketRuleWarning(st, d, cm) ==
  IF "cpu" \in DOMAIN cm /\ "motherboard" \in DOMAIN cm
     /\ TruthyStr(d[cm["cpu"]].socket_type)
     /\ TruthyStr(d[cm["motherboard"]].socket_type)
     /\ d[cm["cpu"]].socket_type # d[cm["motherboard"]].socket_type
    THEN [issues |-> Append(st.issues,
                            Issue("warning", "socket_mismatch",
                                  <<d[cm["cpu"]].socket_type[1],
                                    d[cm["motherboard"]].socket_type[1]>>)),
          compatible |-> st.compatible]
    ELSE st

\* lines 119-131
SocketRule(st, d, cm) ==
  IF "cpu" \in DOMAIN cm /\ "motherboard" \in DOMAIN cm
     /\ TruthyStr(d[cm["cpu"]].socket_type)
     /\ TruthyStr(d[cm["motherboard"]].socket_type)
     /\ d[cm["cpu"]].socket_type # d[cm["motherboard"]].socket_type
    THEN [issues |-> Append(st.issues,
                            Issue("critical", "socket_mismatch",
                                  <<d[cm["cpu"]].socket_type[1],
                                    d[cm["motherboard"]].socket_type[1]>>)),
          compatible |-> FALSE]
    ELSE st

\* lines 133-145
RamRule(st, d, cm) ==
  IF "ram" \in DOMAIN cm /\ "motherboard" \in DOMAIN cm
     /\ TruthyStr(d[cm["ram"]].ram_type)
     /\ TruthyStr(d[cm["motherboard"]].ram_type)
     /\ d[cm["ram"]].ram_type # d[cm["motherboard"]].ram_type
    THEN [issues |-> Append(st.issues,
                            Issue("critical", "ram_type_mismatch",
                                  <<d[cm["ram"]].ram_type[1],
                                    d[cm["motherboard"]].ram_type[1]>>)),
          compatible |-> FALSE]
    ELSE st

RECURSIVE SumTdp(_, _)
\* sum(comp.tdp_watts or 0 for comp in the rows with ids in S)
SumTdp(d, S) ==
  IF S = {} THEN 0
  ELSE LET i == CHOOSE x \in S : TRUE
       IN  (IF IsNone(d[i].tdp_watts) THEN 0 ELSE d[i].tdp_watts[1])
           + SumTdp(d, S \ {i})

\* lines 150-154: the sum for the headroom rule leaves the PSU rows out
NonPsuTdp(d, comps) ==
  SumTdp(d, { i \in comps : d[i].component_type # "psu" })

\* psu.specs.get("wattage", 0) if psu.specs else 0
PsuWattage(specs) == IF TruthyDict(specs) THEN GetOr(specs, "wattage", 0) ELSE 0

\* a comparison without the headroom, against which the PSU property is
\* tested
BelowTotal(psu_wattage, total_tdp) == psu_wattage < total_tdp

\* psu_wattage < total_tdp * 1.3: for integer operands of this size the
\* floating-point product compares as the exact one does
BelowRecommended(psu_wattage, total_tdp) == 10 * psu_wattage < 13 * total_tdp

\* a PSU rule that takes a build without a PSU for one of 0 W, against
\* which the clean-build property is tested
PsuRuleAbsentAsZero(st, d, cm, comps) ==
  IF BelowRecommended(IF "psu" \in DOMAIN cm THEN PsuWattage(d[cm["psu"]].specs) ELSE 0,
                      NonPsuTdp(d, comps))
    THEN [issues |-> Append(st.issues,
                            Issue("warning", "insufficient_psu",
                                  <<0, NonPsuTdp(d, comps)>>)),
          compatible |-> st.compatible]
    ELSE st

\* lines 147-164
PsuRule(st, d, cm, comps) ==
  IF "psu" \in DOMAIN cm
     /\ BelowRecommended(PsuWattage(d[cm["psu"]].specs), NonPsuTdp(d, comps))
    THEN [issues |-> Append(st.issues,
                            Issue("warning", "insufficient_psu",
                                  <<PsuWattage(d[cm["psu"]].specs),
                                    NonPsuTdp(d, comps)>>)),
          compatible |-> st.compatible]
    ELSE st

\* mobo.form_factor not in case.form_factor, on two strings
NotIn(mobo_ff, case_ff) == ~Contains(case_ff, mobo_ff)

\* a form-factor rule that records nothing, against which the
\* compatible-flag property is tested
FormFactorRuleFlagOnly(st, d, cm) ==
  IF "motherboard" \in DOMAIN cm /\ "case" \in DOMAIN cm
     /\ ~IsNone(d[cm["motherboard"]].form_factor)
     /\ ~IsNone(d[cm["case"]].form_factor)
     /\ NotIn(d[cm["motherboard"]].form_factor[1][2], d[cm["case"]].form_factor[1][2])
    THEN [issues |-> st.issues, compatible |-> FALSE]
    ELSE st

\* lines 166-179
FormFactorRule(st, d, cm) ==
  IF "motherboard" \in DOMAIN cm /\ "case" \in DOMAIN cm
     /\ TruthyStr(IF IsNone(d[cm["motherboard"]].form_factor) THEN None
                  ELSE Some(d[cm["motherboard"]].form_factor[1][2]))
     /\ TruthyStr(IF IsNone(d[cm["case"]].form_factor) THEN None
                  ELSE Some(d[cm["case"]].form_factor[1][2]))
     /\ NotIn(d[cm["motherboard"]].form_factor[1][2], d[cm["case"]].form_factor[1][2])
    THEN [issues |-> Append(st.issues,
                            Issue("critical", "form_factor_mismatch",
                                  <<d[cm["motherboard"]].form_factor[1][2],
                                    d[cm["case"]].form_factor[1][2]>>)),
          compatible |-> FALSE]
    ELSE st

\* lines 181-186
CompatResult(st, d, comps) ==
  [compatible |-> st.compatible,
   compatibility_score |->
     IF st.compatible THEN 100 ELSE (IF st.issues # << >> THEN 50 ELSE 100),
   issues |-> st.issues,
   total_tdp_watts |-> SumTdp(d, comps)]

\* the value check_compatibility returns for the comp_map cm
check_compatibility(d, ids, cm) ==
  LET comps == Components(d, ids)
      st0 == [issues |-> << >>, compatible |-> TRUE]
      st1 == SocketRule(st0, d, cm)
      st2 == RamRule(st1, d, cm)
      st3 == PsuRule(st2, d, cm, comps)
      st4 == FormFactorRule(st3, d, cm)
  IN  IF Cardinality(comps) # Len(ids)
        THEN <<"error", "Some component IDs not found">>
        ELSE <<"ok", CompatResult(st4, d, comps)>>

-----------------------------------------------------------------------------
(* app/agent/tools.py: rate_performance *)

\* Scores are kept in fixed point: a column holds Pts(n), an aggregate is
\* in 1/10 of that unit (so that the weights 0.1 .. 0.7 are whole numbers),
\* overall and use_case_score in 1/100 of the aggregate's unit.  The code
\* computes in binary floating point; the model computes the exact values.
AggPts(n) == n * 100000

FinalPts(n) == n * 10000000

\* the use cases a caller asks for: the three aggregates, overall, and one
\* the table of scores does not have
UseCases == {"gaming", "productivity", "ai_ml", "overall", "office"}

\* (comp.x_score or 0)
ScoreOr0(v) == IF TruthyNum(v) THEN v[1] ELSE 0

\* a GPU weighted as a CPU is, against which the GPU-only property is tested
GpuContributionAsCpu(scores, gpu) ==
  [scores EXCEPT !.gaming = @ + ScoreOr0(gpu.gaming_score) * 3,
                 !.ai_ml = @ + ScoreOr0(gpu.ai_score) * 2,
                 !.productivity = @ + ScoreOr0(gpu.productivity_score) * 5]

\* lines 267-271
GpuContribution(scores, gpu) ==
  [scores EXCEPT !.gaming = @ + ScoreOr0(gpu.gaming_score) * 6,
                 !.ai_ml = @ + ScoreOr0(gpu.ai_score) * 7,
                 !.productivity = @ + ScoreOr0(gpu.productivity_score) * 3]

\* lines 274-278
CpuContribution(scores, cpu) ==
  [scores EXCEPT !.gaming = @ + ScoreOr0(cpu.gaming_score) * 3,
                 !.ai_ml = @ + ScoreOr0(cpu.ai_score) * 2,
                 !.productivity = @ + ScoreOr0(cpu.productivity_score) * 5]

\* lines 283-284: min(ram_capacity / 32 * 100, 100), in the unit of Pts
RamScore(specs) ==
  LET ram_capacity == IF TruthyDict(specs) THEN GetOr(specs, "capacity_gb", 0) ELSE 0
      normalized == (ram_capacity * Pts(100)) \div 32
  IN  IF normalized < Pts(100) THEN normalized ELSE Pts(100)

\* lines 281-286
RamContribution(scores, ram) ==
  [scores EXCEPT !.productivity = @ + RamScore(ram.specs) * 2,
                 !.ai_ml = @ + RamScore(ram.specs) * 1]

\* lines 289-293, in the unit of FinalPts
Overall(gaming, productivity, ai_ml) == gaming * 33 + productivity * 33 + ai_ml * 34

\* line 296: scores.get(use_case, scores["overall"]), in the unit of FinalPts
UseCaseScore(scores, use_case) ==
  IF use_case = "overall" THEN scores.overall
  ELSE IF use_case \in DOMAIN scores THEN scores[use_case] * 100
  ELSE scores.overall

\* line 302
Rating(use_case_score) ==
  IF use_case_score >= FinalPts(80) THEN "excellent"
  ELSE IF use_case_score >= FinalPts(60) THEN "good"
  ELSE "fair"

\* the value rate_performance returns for the comp_map cm: the rows the
\* query found are rated, no id is checked against the request
rate_performance(d, use_case, cm) ==
  LET s0 == [gaming |-> 0, productivity |-> 0, ai_ml |-> 0, overall |-> 0]
      s1 == IF "gpu" \in DOMAIN cm THEN GpuContribution(s0, d[cm["gpu"]]) ELSE s0
      s2 == IF "cpu" \in DOMAIN cm THEN CpuContribution(s1, d[cm["cpu"]]) ELSE s1
      s3 == IF "ram" \in DOMAIN cm THEN RamContribution(s2, d[cm["ram"]]) ELSE s2
      s4 == [s3 EXCEPT !.overall = Overall(s3.gaming, s3.productivity, s3.ai_ml)]
  IN  <<"rating", [use_case |-> use_case,
                   use_case_score |-> UseCaseScore(s4, use_case),
                   all_scores |-> s4,
                   rating |-> Rating(UseCaseScore(s4, use_case))]>>

-----------------------------------------------------------------------------
(* The two tools called on one request *)

InitCompat ==
  /\ db = Catalog
  /\ now = 0
  /\ wk = [w \in Workers |-> IdleWorker]
  /\ cache = FALSE
  /\ sc = NoScrape
  /\ invalidated = {}
  /\ pipeline = << >>
  /\ creq \in Requests
  /\ cres = <<"none">>

\* one call of the tool on the request
CheckCompatibility ==
  /\ cres = <<"none">>
  /\ \E cm \in CompMaps(db, Components(db, creq)) :
       cres' = check_compatibility(db, creq, cm)
  /\ UNCHANGED <<db, now, wk, cache, pipeline, creq, sc, invalidated>>

\* one call of rate_performance on the request, for a use case
RatePerformance ==
  /\ cres = <<"none">>
  /\ \E cm \in CompMaps(db, Components(db, creq)), use_case \in UseCases :
       cres' = rate_performance(db, use_case, cm)
  /\ UNCHANGED <<db, now, wk, cache, pipeline, creq, sc, invalidated>>

\* min_length=2 of CompatibilityCheckRequest.component_ids
MinComponentIds == 2

\* the body the route builds whatever the tool returned
FixedResponse ==
  [compatible |-> TRUE, compatibility_score |-> 100, issues |-> << >>,
   recommendations |-> << >>]

\* POST /compatibility/check: the request schema rejects a list of fewer
\* than two ids; otherwise the route invokes the tool on the ids, leaves
\* result_str unread and answers with the fixed body.  The third entry
\* keeps result_str, <<"none">> when the tool was not invoked.
CheckComponentCompatibility ==
  /\ cres = <<"none">>
  /\ IF Len(creq) < MinComponentIds
       THEN cres' = <<"error", "422 Unprocessable Entity", <<"none">> >>
       ELSE \E cm \in CompMaps(db, Components(db, creq)) :
              \E result_str \in {check_compatibility(db, creq, cm)} :
                cres' = <<"response", FixedResponse, result_str>>
  /\ UNCHANGED <<db, now, wk, cache, pipeline, creq, sc, invalidated>>

NextCompat ==
  \/ CheckCompatibility
  \/ RatePerformance
  \/ CheckComponentCompatibility

SpecCompat == InitCompat /\ [][NextCompat]_vars

-----------------------------------------------------------------------------
(* calculate_benchmark_scores called on one component *)

\* d with key k set when the optional value o is present
With(d, k, o) == IF IsNone(o) THEN d ELSE (k :> o[1]) @@ d

\* the attribute maps over two and three keys, each value drawn from a set
\* of optional values
Specs2(k1, V1, k2, V2) ==
  { With(With(EmptyDict, k1, a), k2, b) : a \in V1, b \in V2 }

Specs3(k1, V1, k2, V2, k3, V3) ==
  { With(With(With(EmptyDict, k1, a), k2, b), k3, c) : a \in V1, b \in V2, c \in V3 }

\* Attribute maps with non-negative values, as extract_specs can produce
\* them: clocks in 1/1000 GHz from just above 0 to 6 GHz, around the 3.0 GHz
\* of line 71; core counts, VRAM, capacities and wattages on both sides of
\* every threshold of the calculators.
BenchSpecs ==
  Specs2("cores", {None, Some(0), Some(4), Some(16)},
         "base_clock_ghz",
         {None, Some(0), Some(1), Some(2500), Some(3000), Some(4500), Some(6000)})
  \cup Specs2("vram_gb", {None, Some(0), Some(8), Some(12), Some(16), Some(24)},
              "memory_type", {None, Some(<<"G","D","D","R","6","X">>), Some(<<"G","D","D","R","6">>)})
  \cup Specs3("capacity_gb", {None, Some(0), Some(8), Some(32), Some(128)},
              "ram_type", {None, Some(<<"D","D","R","4">>), Some(<<"D","D","R","5">>)},
              "ram_speed", {None, Some(3600)})
  \cup Specs2("capacity_gb", {Some(0), Some(1000), Some(2000)},
              "type", {None, Some(<<"N","V","M","e"," ","S","S","D">>), Some(<<"S","S","D">>), Some(<<"H","D","D">>)})
  \cup Specs2("wattage", {None, Some(0), Some(550), Some(1000)},
              "efficiency", {None, Some(<<"8","0","+"," ","T","i","t","a","n","i","u","m">>), Some(<<"8","0","+"," ","G","o","l","d">>)})

\* names that hit the first, the last and no row of the tables
BenchNames ==
  { <<"I","n","t","e","l"," ","C","o","r","e"," ","i","3","-","1","0","1","0","0">>, <<"A","M","D"," ","R","y","z","e","n"," ","9"," ","7","9","5","0","X">>, <<"M","S","I"," ","R","T","X"," ","4","0","9","0">>, <<"R","X"," ","6","5","0","0"," ","X","T">>,
    <<"G","e","n","e","r","i","c">> }

BenchTypes == {"cpu", "gpu", "ram", "storage", "psu", "case"}

InitBench ==
  /\ db = << >>
  /\ now = 0
  /\ wk = [w \in Workers |-> IdleWorker]
  /\ cache = FALSE
  /\ sc = NoScrape
  /\ invalidated = {}
  /\ pipeline = << >>
  /\ creq \in { <<ct, name, specs>> :
                  ct \in BenchTypes, name \in BenchNames, specs \in BenchSpecs }
  /\ cres = <<"none">>

\* one call of calculate_benchmark_scores(component_type, name, specs)
CalculateScores ==
  /\ cres = <<"none">>
  /\ cres' = <<"scores", calculate_benchmark_scores(creq[1], creq[2], creq[3])>>
  /\ UNCHANGED <<db, now, wk, cache, pipeline, creq, sc, invalidated>>

NextBench == CalculateScores

SpecBench == InitBench /\ [][NextBench]_vars

-----------------------------------------------------------------------------
(* mark_out_of_stock run on a table of records of several ages *)

\* number of records of the table
SweepRows == 3

\* A record as an ingestion left it some hours ago, or one never scraped;
\* in stock or not.  The ages lie on both sides of the cutoff and on it.
SweepRecords ==
  { [StoredRow("cpu", <<"c">>, EmptyDict, None, None, None, None)
       EXCEPT !.in_stock = s, !.last_scraped_at = l] :
      s \in BOOLEAN,
      l \in {None, Some(MaxTime - 49), Some(MaxTime - 48), Some(MaxTime - 47),
             Some(MaxTime)} }

InitSweep ==
  /\ db \in [1..SweepRows -> SweepRecords]
  /\ now = MaxTime
  /\ wk = [w \in Workers |-> IdleWorker]
  /\ cache = FALSE
  /\ sc = NoScrape
  /\ invalidated = {}
  /\ pipeline = << >>
  /\ creq = << >>
  /\ cres = <<"none">>

NextSweep == MarkOutOfStock

SpecSweep == InitSweep /\ [][NextSweep]_vars

-----------------------------------------------------------------------------
(* Ingestion over a catalog that holds a listing at its former price *)

\* the record of listing 1 as an earlier run stored it, when the site
\* showed the listing at another price
FormerRecord == [Inserted(1, 0, 0) EXCEPT !.price_dzd = 28000]

InitReprice ==
  /\ pipeline = [i \in PoolIdx |-> Pipeline(Pool[i])]
  /\ db = <<FormerRecord>>
  /\ now = 0
  /\ wk = [w \in Workers |-> IdleWorker]
  /\ cache = FALSE
  /\ sc = NoScrape
  /\ invalidated = {}
  /\ creq = << >>
  /\ cres = <<"none">>

SpecReprice == InitReprice /\ [][Next]_vars

-----------------------------------------------------------------------------
(* app/scrapers/ouedkniss_scraper.py: scrape_category page by page *)

\* the largest max_pages a call is given
MaxPages == 3

\* core/config.py
SCRAPER_DELAY_SECONDS == 2

SCRAPER_MAX_RETRIES == 3

CATEGORIES ==
  {"gpu", "cpu", "motherboard", "ram", "storage", "psu", "case", "cooling"}

\* _parse_listing_page of the response for a page: the listings the site
\* shows there, none past the last page of the category
PageListings(ct, page) ==
  IF page <= Len(Site(ct)) THEN Site(ct)[page] ELSE << >>

\* entries of the run's log: a request for a page, with whether it and the
\* parsing of its response went through, and a sleep
Request(page, ok) == <<"get", page, ok>>

Sleep == <<"sleep", SCRAPER_DELAY_SECONDS>>

\* a handler that starts the list afresh when a page raises, against which
\* the keeping of the earlier pages is tested
DroppedOnError(components) == << >>

\* lines 85-87: the except branch logs and continues; components is as the
\* earlier pages left it
KeptOnError(components) == components

InitScrape ==
  /\ db = << >>
  /\ now = 0
  /\ wk = [w \in Workers |-> IdleWorker]
  /\ cache = FALSE
  /\ invalidated = {}
  /\ pipeline = << >>
  /\ creq \in { <<ct, pages>> :
                  ct \in CATEGORIES \cup {"monitor"}, pages \in 0..MaxPages }
  /\ cres = <<"none">>
  /\ sc = [pc |-> "call", page |-> 0, components |-> << >>, log |-> << >>]

\* lines 59-64: an unknown component type returns [] at once
EnterCategory ==
  /\ sc.pc = "call"
  /\ IF creq[1] \notin CATEGORIES
       THEN /\ cres' = <<"components", << >> >>
            /\ sc' = [sc EXCEPT !.pc = "done"]
       ELSE /\ cres' = cres
            /\ sc' = [sc EXCEPT !.pc = "page", !.page = 1, !.components = << >>]
  /\ UNCHANGED <<db, now, wk, cache, pipeline, creq, invalidated>>

\* lines 67-83: the request and the parsing go through; the page's listings
\* are appended and the run sleeps
PageFetched ==
  /\ sc.pc = "page"
  /\ sc.page <= creq[2]
  /\ sc' = [sc EXCEPT !.components = @ \o PageListings(creq[1], sc.page),
                      !.log = @ \o <<Request(sc.page, TRUE), Sleep>>,
                      !.page = @ + 1]
  /\ UNCHANGED <<db, now, wk, cache, pipeline, creq, cres, invalidated>>

\* lines 74-77 raise (timeout, connection error, HTTP error status, parser
\* error): lines 85-87 log the error and go on to the next page
PageRaised ==
  /\ sc.pc = "page"
  /\ sc.page <= creq[2]
  /\ sc' = [sc EXCEPT !.components = KeptOnError(@),
                      !.log = Append(@, Request(sc.page, FALSE)),
                      !.page = @ + 1]
  /\ UNCHANGED <<db, now, wk, cache, pipeline, creq, cres, invalidated>>

\* lines 89-90
ReturnComponents ==
  /\ sc.pc = "page"
  /\ sc.page > creq[2]
  /\ cres' = <<"components", sc.components>>
  /\ sc' = [sc EXCEPT !.pc = "done"]
  /\ UNCHANGED <<db, now, wk, cache, pipeline, creq, invalidated>>

NextScrape ==
  \/ EnterCategory
  \/ PageFetched
  \/ PageRaised
  \/ ReturnComponents

SpecScrape == InitScrape /\ [][NextScrape]_vars

-----------------------------------------------------------------------------
(* extract_specs on listings of the site *)

ExtractTypes == {"gpu", "motherboard", "cpu", "case"}

ExtractNames == { <<"R","T","X"," ","3","0","8","0">>, <<"M","S","I"," ","B","5","5","0","M">>, <<"A","s","u","s"," ","P","r","i","m","e">> }

ExtractDescriptions ==
  { <<>>, <<"1","0","G","B"," ","G","D","D","R","6","X">>, <<"1","2","G","B"," ","G","D","D","R","6">>, <<"G","D","D","R","5"," ","7","5","W">>, <<"A","M","4"," ","m","A","T","X">>, <<"m","i","c","r","o"," ","a","t","x"," ","D","D","R","4">>,
    <<"A","T","X"," ","A","M","5">>, <<"M","i","n","i"," ","I","T","X">> }

InitExtract ==
  /\ db = << >>
  /\ now = 0
  /\ wk = [w \in Workers |-> IdleWorker]
  /\ cache = FALSE
  /\ sc = NoScrape
  /\ invalidated = {}
  /\ pipeline = << >>
  /\ creq \in { <<ct, name, description>> :
                  ct \in ExtractTypes, name \in ExtractNames,
                  description \in ExtractDescriptions }
  /\ cres = <<"none">>

\* one call of extract_specs(component_type, name, description)
ExtractSpecs ==
  /\ cres = <<"none">>
  /\ cres' = <<"specs", extract_specs(creq[1], creq[2], creq[3])>>
  /\ UNCHANGED <<db, now, wk, cache, pipeline, creq, sc, invalidated>>

NextExtract == ExtractSpecs

SpecExtract == InitExtract /\ [][NextExtract]_vars

-----------------------------------------------------------------------------
(* Properties of ingestion, checked under Spec *)

Last(s) == s[Len(s)]

\* this step finished one listing of w's batch with an outcome of that kind
Did(w, kind) ==
  /\ Len(wk'[w].outcome) = Len(wk[w].outcome) + 1
  /\ Last(wk'[w].outcome).kind = kind

\* the columns the merge policy speaks of, besides the specification bag
MergeFields ==
  {"manufacturer", "model", "benchmark_score", "gaming_score",
   "productivity_score", "ai_score", "socket_type", "ram_type", "ram_speed",
   "tdp_watts", "form_factor"}

\* what listing i brings for a column
Incoming(i, f) ==
  IF f \in {"manufacturer", "model"} THEN pipeline[i].name_data[f]
  ELSE IF f \in {"benchmark_score", "gaming_score", "productivity_score", "ai_score"}
    THEN Some(pipeline[i].scores[f])
  ELSE Get(pipeline[i].specs, f)

\* a column value that is neither NULL nor empty nor zero
Populated(f, v) ==
  IF f \in {"manufacturer", "model", "socket_type", "ram_type"} THEN TruthyStr(v)
  ELSE IF f = "form_factor" THEN ~IsNone(v) /\ v[1][2] # << >>
  ELSE TruthyNum(v)

\* the row keeps what it had wherever listing i brings nothing
KeepsPopulated(e, a, i) ==
  /\ \A f \in MergeFields :
       (Populated(f, e[f]) /\ ~Populated(f, Incoming(i, f))) => a[f] = e[f]
  /\ \A k \in DOMAIN e.specs :
       k \notin DOMAIN pipeline[i].specs => (k \in DOMAIN a.specs /\ a.specs[k] = e.specs[k])

\* C1: an update never erases a populated field: every column and every key
\* of the specification bag that the stored record has and the incoming
\* listing lacks holds its prior value after the update.
C1_MergeNeverErases ==
  [][\A w \in Workers :
       Did(w, "updated") =>
         KeepsPopulated(db[Last(wk'[w].outcome).id], db'[Last(wk'[w].outcome).id],
                        Last(wk'[w].outcome).li)]_vars

\* two rows agree on every column but the two timestamps an update advances
SameButTimestamps(a, b) ==
  [a EXCEPT !.updated_at = None, !.last_scraped_at = None, !.src = 0]
    = [b EXCEPT !.updated_at = None, !.last_scraped_at = None, !.src = 0]

\* some stored row has the match key of listing l
KeyStored(d, l) ==
  \E id \in 1..Len(d) : d[id].name = l.name /\ d[id].price_dzd = l.price_dzd

\* C2: ingesting the same listing a second time finds the stored record (no
\* second record is created for it) and leaves every field of it but
\* last_scraped_at and updated_at as the first ingestion left it.
C2_Idempotent ==
  [][\A w \in Workers :
       /\ (wk[w].pc = "lookup" /\ wk'[w].pc = "write" /\ KeyStored(db, Pool[Cur(w)]))
            => ~IsNone(wk'[w].loaded)
       /\ (Did(w, "updated")
           /\ db[Last(wk'[w].outcome).id].src = Last(wk'[w].outcome).li)
            => /\ SameButTimestamps(db[Last(wk'[w].outcome).id],
                                    db'[Last(wk'[w].outcome).id])
               /\ Len(db') = Len(db)]_vars

\* a single record, created from a listing and since updated from the same
\* listing, equal to the freshly created one up to the timestamps
C2_Witness ==
  \E w \in Workers :
    /\ wk[w].outcome # << >>
    /\ Last(wk[w].outcome).kind = "updated"
    /\ Len(db) = 1
    /\ db[1].src = Last(wk[w].outcome).li
    /\ ~IsNone(db[1].updated_at)
    /\ SameButTimestamps(db[1], NewRow(db[1].src, db[1].created_at))

\* C3: the catalog never holds two records with the same (name, price),
\* however two ingestions that process the same match key interleave.
C3_NoDuplicateKey ==
  \A i, j \in 1..Len(db) :
    (db[i].name = db[j].name /\ db[i].price_dzd = db[j].price_dzd) => i = j

\* C4: a listing that raises does not end the batch: the listings are
\* processed one by one in order, each created or updated record stays in
\* the table, and the call returns only after the last listing.
C4_BatchNotAllOrNothing ==
  \A w \in Workers :
    /\ Len(wk[w].outcome) <= Len(wk[w].batch)
    /\ \A k \in 1..Len(wk[w].outcome) :
         /\ wk[w].outcome[k].li = wk[w].batch[k]
         /\ wk[w].outcome[k].kind # "failed" =>
              /\ wk[w].outcome[k].id \in 1..Len(db)
              /\ db[wk[w].outcome[k].id].name = Pool[wk[w].batch[k]].name
              /\ db[wk[w].outcome[k].id].price_dzd = Pool[wk[w].batch[k]].price_dzd
    /\ wk[w].pc = "return" => Len(wk[w].outcome) = Len(wk[w].batch)

\* a call about to return whose first listing failed and whose second was
\* created
C4_Witness ==
  \E w \in Workers :
    /\ wk[w].pc = "return"
    /\ Len(wk[w].outcome) = 2
    /\ wk[w].outcome[1].kind = "failed"
    /\ wk[w].outcome[2].kind = "created"

\* C5: a listing whose processing fails, at any assignment of the merge, at
\* the insert or at the commit, leaves the table exactly as it was.
C5_FailureLeavesTable ==
  [][\A w \in Workers : Did(w, "failed") => db' = db]_vars

\* an update rolled back while the session held changes to the stored row
C5_Witness ==
  \E w \in Workers :
    /\ wk[w].outcome # << >>
    /\ Last(wk[w].outcome).kind = "failed"
    /\ Last(wk[w].outcome).id \in 1..Len(db)
    /\ Last(wk[w].outcome).partial
    /\ pipeline[Last(wk[w].outcome).li].specs # db[Last(wk[w].outcome).id].specs

-----------------------------------------------------------------------------
(* Properties of check_compatibility, checked under SpecCompat *)

\* the call returned an analysis (every id was found)
Answered == cres[1] = "ok"

\* the request names existing components, at most one of each category
OnePerCategory ==
  /\ \A k \in DOMAIN creq : creq[k] \in 1..Len(db)
  /\ \A j, k \in DOMAIN creq :
       db[creq[j]].component_type = db[creq[k]].component_type => j = k

\* the requested components of a category
Requested(ct) == { i \in Range(creq) \cap (1..Len(db)) : db[i].component_type = ct }

\* the returned issues of a kind / of a severity
IssuesOfType(type) == { k \in DOMAIN cres[2].issues : cres[2].issues[k].type = type }

IssuesOfSeverity(sev) == { k \in DOMAIN cres[2].issues : cres[2].issues[k].severity = sev }

\* C6: the returned compatible flag is true if and only if the returned
\* issues hold no issue of severity critical.
C6_CompatibleIffNoCritical ==
  Answered => (cres[2].compatible <=> IssuesOfSeverity("critical") = {})

\* an incompatible answer that holds a critical issue next to a warning
C6_Witness ==
  /\ Answered
  /\ ~cres[2].compatible
  /\ IssuesOfSeverity("critical") # {}
  /\ IssuesOfSeverity("warning") # {}

\* the requested PSU states a wattage, and it is below 1.3 times the summed
\* TDP of the requested components that are no PSU
PsuBelowHeadroom ==
  \E p \in Requested("psu") :
    /\ "wattage" \in DOMAIN db[p].specs
    /\ 10 * db[p].specs["wattage"]
         < 13 * SumTdp(db, { i \in Range(creq) : db[i].component_type # "psu" })

\* C7: a PSU whose wattage is below 1.3 times the total TDP of the other
\* components yields a warning of kind insufficient_psu, and compatible
\* stays true unless another rule produced a critical issue.
C7_PsuWarningOnly ==
  (Answered /\ OnePerCategory /\ PsuBelowHeadroom) =>
    /\ \E k \in IssuesOfType("insufficient_psu") :
         cres[2].issues[k].severity = "warning"
    /\ IssuesOfSeverity("critical") = {} => cres[2].compatible

\* an underpowered PSU reported as a warning in a compatible build
C7_Witness ==
  /\ Answered /\ OnePerCategory /\ PsuBelowHeadroom
  /\ IssuesOfType("insufficient_psu") # {}
  /\ cres[2].compatible

\* some requested component of the category has the column empty
Lacks(ct, f) == \E i \in Requested(ct) : ~Populated(f, db[i][f])

\* C8: each rule is skipped when one of its two fields is absent: no issue
\* of its kind is returned; a PSU without a wattage attribute never yields
\* an insufficient_psu issue.
C8_AbsentFieldSkipsRule ==
  (Answered /\ OnePerCategory) =>
    /\ (Lacks("cpu", "socket_type") \/ Lacks("motherboard", "socket_type"))
         => IssuesOfType("socket_mismatch") = {}
    /\ (Lacks("ram", "ram_type") \/ Lacks("motherboard", "ram_type"))
         => IssuesOfType("ram_type_mismatch") = {}
    /\ (Lacks("motherboard", "form_factor") \/ Lacks("case", "form_factor"))
         => IssuesOfType("form_factor_mismatch") = {}
    /\ (\E p \in Requested("psu") : "wattage" \notin DOMAIN db[p].specs)
         => IssuesOfType("insufficient_psu") = {}

\* C9: the reported total TDP is the sum of tdp_watts over the requested
\* components that are no PSU.
C9_TotalTdpExcludesPsu ==
  Answered =>
    cres[2].total_tdp_watts
      = SumTdp(db, { i \in Range(creq) : db[i].component_type # "psu" })

\* the sizes of the form factors: a board fits a case that is as large
FormFactorSize(ff) ==
  CASE ff = <<"I","T","X">> -> 1
    [] ff = <<"m","A","T","X">> -> 2
    [] ff = <<"A","T","X">> -> 3

Fits(board_ff, case_ff) == FormFactorSize(board_ff) <= FormFactorSize(case_ff)

\* C10: with a motherboard and a case that both state a form factor, a
\* form_factor_mismatch issue is returned exactly when the board does not
\* fit the case; an ATX case takes ATX, mATX and ITX boards.
C10_FormFactorContainment ==
  (Answered /\ OnePerCategory) =>
    \A m \in Requested("motherboard"), c \in Requested("case") :
      (Populated("form_factor", db[m].form_factor)
       /\ Populated("form_factor", db[c].form_factor)) =>
        (IssuesOfType("form_factor_mismatch") = {}
           <=> Fits(db[m].form_factor[1][2], db[c].form_factor[1][2]))

-----------------------------------------------------------------------------
(* Socket properties of check_compatibility, checked under SpecCompat *)

\* the request holds a CPU and a motherboard that both state a socket
SocketsStated ==
  /\ Requested("cpu") # {} /\ Requested("motherboard") # {}
  /\ \A c \in Requested("cpu") : Populated("socket_type", db[c].socket_type)
  /\ \A m \in Requested("motherboard") : Populated("socket_type", db[m].socket_type)

SocketsDiffer ==
  /\ SocketsStated
  /\ \A c \in Requested("cpu"), m \in Requested("motherboard") :
       db[c].socket_type # db[m].socket_type

SocketsEqual ==
  /\ SocketsStated
  /\ \A c \in Requested("cpu"), m \in Requested("motherboard") :
       db[c].socket_type = db[m].socket_type

\* C11: a CPU and a motherboard whose sockets are both present and differ
\* yield compatible = false and one issue of kind socket_mismatch, which is
\* critical; requested alone, the pair yields no other issue.
C11_SocketMismatchCritical ==
  (Answered /\ OnePerCategory /\ SocketsDiffer) =>
    /\ ~cres[2].compatible
    /\ Cardinality(IssuesOfType("socket_mismatch")) = 1
    /\ IssuesOfType("socket_mismatch") \subseteq IssuesOfSeverity("critical")
    /\ Len(creq) = 2 => Len(cres[2].issues) = 1

\* the answer for an AM4 processor on an LGA1700 board, requested alone
C11_Witness ==
  /\ Answered /\ OnePerCategory /\ SocketsDiffer
  /\ Len(creq) = 2
  /\ Len(cres[2].issues) = 1
  /\ cres[2].issues[1].type = "socket_mismatch"
  /\ cres[2].issues[1].args = << <<"A","M","4">>, <<"L","G","A","1","7","0","0">> >>

NoOtherMismatch ==
  \A m \in Requested("motherboard") :
    /\ \A r \in Requested("ram") :
         (Populated("ram_type", db[r].ram_type)
          /\ Populated("ram_type", db[m].ram_type))
           => db[r].ram_type = db[m].ram_type
    /\ \A c \in Requested("case") :
         (Populated("form_factor", db[m].form_factor)
          /\ Populated("form_factor", db[c].form_factor))
           => Contains(db[c].form_factor[1][2], db[m].form_factor[1][2])

-----------------------------------------------------------------------------
(* Properties of the requests to both tools, checked under SpecCompat *)

\* a tool has returned
Returned == cres # <<"none">>

\* rate_performance returned a rating
Rated == cres[1] = "rating"

\* C13: a request that names a component id absent from the catalog fails
\* with an error, for check_compatibility and for rate_performance alike: no
\* verdict and no score comes back.
C13_AbsentIdFailsRequest ==
  (Returned /\ \E k \in DOMAIN creq : creq[k] \notin 1..Len(db)) =>
    cres[1] = "error"

\* C14: a request with an empty list of ids never gets a normal result from
\* either tool, and check_compatibility gives none for fewer than two ids.
C14_EmptyRequestRejected ==
  /\ (Returned /\ creq = << >>) => cres[1] = "error"
  /\ (Returned /\ ~Rated /\ Len(creq) < 2) => cres[1] = "error"

\* the request is one GPU and nothing else
OnlyGpu == Len(creq) = 1 /\ creq[1] \in 1..Len(db) /\ db[creq[1]].component_type = "gpu"

\* C19: for a request of one GPU the gaming aggregate is 0.6 times the GPU's
\* gaming score, the ai aggregate 0.7 times its ai score and the
\* productivity aggregate 0.3 times its productivity score (an aggregate is
\* counted in tenths of the unit of a score), nothing being added for the
\* absent CPU and RAM.
C19_GpuOnlyAggregates ==
  (Rated /\ OnlyGpu) =>
    /\ cres[2].all_scores.gaming = 6 * ScoreOr0(db[creq[1]].gaming_score)
    /\ cres[2].all_scores.ai_ml = 7 * ScoreOr0(db[creq[1]].ai_score)
    /\ cres[2].all_scores.productivity = 3 * ScoreOr0(db[creq[1]].productivity_score)

\* the GPU of gaming score 90 rated alone: a gaming aggregate of 54
C19_Witness ==
  /\ Rated /\ OnlyGpu
  /\ db[creq[1]].gaming_score = Some(Pts(90))
  /\ cres[2].all_scores.gaming = AggPts(54)

\* C20: overall is the mean of the gaming, productivity and ai aggregates,
\* each weighing one third.
C20_OverallEqualWeights ==
  Rated =>
    3 * cres[2].all_scores.overall
      = 100 * (cres[2].all_scores.gaming + cres[2].all_scores.productivity
               + cres[2].all_scores.ai_ml)

-----------------------------------------------------------------------------
(* Properties of calculate_benchmark_scores, checked under SpecBench *)

ScoreNames == {"benchmark_score", "gaming_score", "productivity_score", "ai_score"}

\* C18: each of the four scores returned for a category, a name and an
\* attribute map with non-negative values lies between 0 and 100, both
\* included, also for a CPU clocked below 3.0 GHz and after the bonuses.
C18_ScoresInRange ==
  cres[1] = "scores" =>
    \A f \in ScoreNames : 0 <= cres[2][f] /\ cres[2][f] <= Pts(100)

\* a slow many-core Ryzen 9: the clock term lowers the gaming score below
\* the table's 88, the core bonus takes productivity to the cap
C18_Witness ==
  /\ cres[1] = "scores"
  /\ creq[1] = "cpu"
  /\ "base_clock_ghz" \in DOMAIN creq[3]
  /\ creq[3]["base_clock_ghz"] > 0 /\ creq[3]["base_clock_ghz"] < 3000
  /\ cres[2].gaming_score < Pts(88)
  /\ cres[2].gaming_score > Pts(50)
  /\ cres[2].productivity_score = Pts(100)

-----------------------------------------------------------------------------
(* Properties of the staleness sweep, checked under SpecSweep and Spec *)

\* the columns of a row, without its history
Columns(row) == [row EXCEPT !.src = 0]

\* in stock and last scraped more than 48 hours before the sweep
OlderThan48h(row) ==
  /\ row.in_stock
  /\ row.last_scraped_at # None
  /\ now - row.last_scraped_at[1] > 48

\* C15 as stated: a sweep that changes the table sets in_stock to false for
\* exactly the records in stock and last scraped more than 48 hours ago, and
\* changes no other field of any record.
C15_SweepFlipsOnlyInStock ==
  [][db' = db
     \/ /\ Len(db') = Len(db)
        /\ \A i \in 1..Len(db) :
             Columns(db'[i]) = IF OlderThan48h(db[i])
                                 THEN Columns([db[i] EXCEPT !.in_stock = FALSE])
                                 ELSE Columns(db[i])]_vars

\* C15: a sweep that changes the table sets in_stock to false for exactly
\* the records in stock and last scraped more than 48 hours ago (49 hours:
\* flipped; 48 or 47 hours: untouched); of the flipped records it changes
\* updated_at besides, and nothing else; every other record is unchanged.
C15_SweepFlipsStale ==
  [][db' = db
     \/ /\ Len(db') = Len(db)
        /\ \A i \in 1..Len(db) :
             Columns(db'[i]) = IF OlderThan48h(db[i])
                                 THEN Columns([db[i] EXCEPT !.in_stock = FALSE,
                                                            !.updated_at = Some(now)])
                                 ELSE Columns(db[i])]_vars

\* after a sweep: the record scraped 49 hours ago is out of stock, those
\* scraped 48 and 47 hours ago are in stock and untouched
C15_Witness ==
  /\ Len(db) = 3
  /\ db[1].last_scraped_at = Some(now - 49) /\ ~db[1].in_stock
  /\ db[1].updated_at = Some(now)
  /\ db[2].last_scraped_at = Some(now - 48) /\ db[2].in_stock
  /\ db[2].updated_at = None
  /\ db[3].last_scraped_at = Some(now - 47) /\ db[3].in_stock
  /\ db[3].updated_at = None

\* C16: no step of an ingestion or of a sweep removes a record: the table
\* only grows, and each record keeps its identity.
C16_RecordsNeverDeleted ==
  [][/\ Len(db') >= Len(db)
     /\ \A i \in 1..Len(db) :
          /\ db'[i].name = db[i].name
          /\ db'[i].component_type = db[i].component_type
          /\ db'[i].created_at = db[i].created_at]_vars

\* a record swept out of stock that is still in the table, next to a
\* record ingested later
C16_Witness ==
  \E i, j \in 1..Len(db) :
    /\ i < j
    /\ ~db[i].in_stock
    /\ db[j].in_stock
    /\ db[j].created_at > db[i].created_at

\* C17: after each successful ingestion of a listing that matched a stored
\* record, that record is in stock, also when a sweep had marked it out of
\* stock before.
C17_MatchRestoresStock ==
  [][\A w \in Workers :
       Did(w, "updated") => db'[Last(wk'[w].outcome).id].in_stock]_vars

-----------------------------------------------------------------------------
(* The value a batch returns *)

\* how many listings of w's batch ended with an outcome of that kind
NumberOf(w, kind) ==
  Cardinality({ k \in 1..Len(wk[w].outcome) : wk[w].outcome[k].kind = kind })

\* w's call of scrape_component_type is about to return saved_count
Returning(w) == wk[w].pc = "return"

\* C27: the count returned by scrape_component_type equals the number of new
\* records the call persisted; a listing whose insert fails at the commit
\* and is rolled back is not counted.
C27_CountEqualsPersisted ==
  \A w \in Workers :
    Returning(w) => wk[w].saved_count = NumberOf(w, "created")

\* the returned value tells the batches apart: two calls that return the
\* same value created, updated and failed the same numbers of listings
ReturnDistinguishes ==
  \A v, w \in Workers :
    (Returning(v) /\ Returning(w) /\ wk[v].saved_count = wk[w].saved_count)
      => \A kind \in {"created", "updated", "failed"} :
           NumberOf(v, kind) = NumberOf(w, kind)

\* what update_component_prices adds to total_updated is the number of
\* records the call updated
CountsUpdated ==
  Returning("hourly") => wk["hourly"].saved_count = NumberOf("hourly", "updated")

\* C21: the value returned by scrape_component_type distinguishes the
\* created, the updated and the failed listings of the batch, and
\* total_updated of update_component_prices counts updated records.
C21_ResultReportsCounts == ReturnDistinguishes /\ CountsUpdated

-----------------------------------------------------------------------------
(* Timestamps and the cache *)

\* C25: for every record, last_scraped_at never decreases over any sequence
\* of ingestions and sweeps: no step of a task leaves a record with an
\* earlier last_scraped_at than it had, the clock never going back.
C25_LastScrapedNeverDecreases ==
  [][\A i \in DOMAIN db :
       ~IsNone(db[i].last_scraped_at) =>
         /\ ~IsNone(db'[i].last_scraped_at)
         /\ db'[i].last_scraped_at[1] >= db[i].last_scraped_at[1]]_vars

\* task w has run to its end
Completed(w) == wk[w].runs > 0 /\ wk[w].pc = "idle"

\* a record is out of stock, which only a completed mark_out_of_stock
\* brings about
SweepChangedCatalog == \E i \in DOMAIN db : ~db[i].in_stock

\* C29: every task that changes the catalog has invalidated the
\* 'components' cache when it returns: scrape_all_components,
\* update_component_prices and mark_out_of_stock alike.
C29_TasksInvalidateCache ==
  /\ \A w \in Workers : Completed(w) => w \in invalidated
  /\ SweepChangedCatalog => "mark_out_of_stock" \in invalidated

-----------------------------------------------------------------------------
(* The compatibility endpoint *)

\* the endpoint answered 200 for the request
Responded == cres[1] = "response"

\* what the tool returned to the route
ResultStr == cres[3]

\* C26: the response of the endpoint check_component_compatibility agrees
\* with the verdict of the check_compatibility tool for the same ids: the
\* same compatible flag and the tool's issues, and an error when the tool
\* reports ids that are not found.
C26_RouteAgreesWithTool ==
  Responded =>
    /\ ResultStr[1] = "ok"
    /\ cres[2].compatible = ResultStr[2].compatible
    /\ cres[2].issues = ResultStr[2].issues

-----------------------------------------------------------------------------
(* A listing whose price changed *)

\* the listing whose ingestion by w this step finished
Ingested(w) == Pool[Last(wk'[w].outcome).li]

\* the in-stock records of table d that carry the name
InStockNamed(d, name) == { i \in DOMAIN d : d[i].in_stock /\ d[i].name = name }

\* C28: after a successful ingestion of a listing whose name is that of a
\* stored in-stock record with another price, the catalog holds exactly one
\* in-stock record of that name, and it carries the ingested price.
C28_OneInStockRecordPerName ==
  [][\A w \in Workers :
       ( /\ Did(w, "created") \/ Did(w, "updated")
         /\ \E i \in InStockNamed(db, Ingested(w).name) :
              db[i].price_dzd # Ingested(w).price_dzd )
       => /\ Cardinality(InStockNamed(db', Ingested(w).name)) = 1
          /\ \A i \in InStockNamed(db', Ingested(w).name) :
               db'[i].price_dzd = Ingested(w).price_dzd]_vars

-----------------------------------------------------------------------------
(* One run of scrape_category *)

\* the run has returned for a known component type
ScrapeDone == sc.pc = "done" /\ creq[1] \in CATEGORIES

\* the positions of the log that hold a request
RequestsIn(log) == { k \in DOMAIN log : log[k][1] = "get" }

\* how many times the page was requested
Attempts(page) ==
  Cardinality({ k \in RequestsIn(sc.log) : sc.log[k][2] = page })

\* the page was fetched on some attempt
FetchedPage(page) == \E k \in RequestsIn(sc.log) : sc.log[k] = Request(page, TRUE)

\* C22: a page whose fetch fails is retried up to SCRAPER_MAX_RETRIES
\* attempts before it is skipped: when the run returns, every page that was
\* never fetched has been requested SCRAPER_MAX_RETRIES times.
C22_FailedPageRetried ==
  ScrapeDone =>
    \A page \in 1..creq[2] :
      ~FetchedPage(page) => Attempts(page) = SCRAPER_MAX_RETRIES

\* C23: between any two consecutive page requests of a run there is a
\* delay of SCRAPER_DELAY_SECONDS, also when the earlier request raised.
C23_DelayBetweenRequests ==
  \A j, k \in RequestsIn(sc.log) :
    j < k => \E m \in (j + 1)..(k - 1) : sc.log[m] = Sleep

\* the listings of the pages the log shows as fetched, in the order of the
\* requests
RECURSIVE FetchedListings(_, _)
FetchedListings(ct, log) ==
  IF log = << >> THEN << >>
  ELSE (IF Head(log)[1] = "get" /\ Head(log)[3]
          THEN PageListings(ct, Head(log)[2]) ELSE << >>)
       \o FetchedListings(ct, Tail(log))

-----------------------------------------------------------------------------
(* The probes of the extractor *)

\* extract_specs has returned for a listing of that component type
Extracted(ct) == cres[1] = "specs" /\ creq[1] = ct

\* the lowercased text of the listing contains the key
TextHas(key) == Contains(ListingText(creq[2], creq[3]), key)

\* C30: every value of the extractor's ordered probes is reachable: a GPU
\* listing whose text contains 'gddr6x' gets memory_type GDDR6X, and a
\* motherboard listing whose text contains 'matx' or 'micro atx' gets
\* form_factor mATX.
C30_ProbeValuesReachable ==
  /\ (Extracted("gpu") /\ TextHas(<<"g","d","d","r","6","x">>)) =>
       Get(cres[2], "memory_type") = Some(<<"G","D","D","R","6","X">>)
  /\ (Extracted("motherboard") /\ (TextHas(<<"m","a","t","x">>) \/ TextHas(<<"m","i","c","r","o"," ","a","t","x">>))) =>
       Get(cres[2], "form_factor") = Some(StrVal(<<"m","A","T","X">>))

====
